---- MODULE Spec2Model ----
(***************************************************************************)
(* Model of the chatur-credit-insight retrieval pipeline: the lexical      *)
(* similarity scorers and the in-memory document index (vectorSearch.ts),  *)
(* the query mapper (queryMapper.ts), the card-data adapter                *)
(* (useCreditCardApi.ts), the generative adapter (openai.ts) and the       *)
(* three-tier orchestrator searchWithRAG (useRAGSearch.ts).                *)
(*                                                                         *)
(* The repository holds three revisions of the orchestrator; the variable  *)
(* rev selects the one a run executes:                                     *)
(*   "current"  useRAGSearch.ts 230-392  (search, computeAdvancedSimilarity)*)
(*   "mapped"   useRAGSearch.ts 1-227    (searchWithMapping, filterApiResults)*)
(*   "basic"    unnamed/part_004         (search, computeEnhancedSimilarity)*)
(*                                                                         *)
(* Strings are sequences of one-character strings.  JavaScript numbers are *)
(* exact rationals scaled by ONE (ONE stands for 1.0); NaN is a value of   *)
(* its own that every arithmetic operator propagates and every comparison  *)
(* rejects.  An absent optional field (undefined) and the empty string or  *)
(* empty array are both written <<>>: the code only tests such fields for  *)
(* truthiness, and no rule or chunk carries an empty array.                *)
(***************************************************************************)
EXTENDS Integers, Sequences, FiniteSets, TLC

Lit ==
  [
    annual_fee |-> <<"a","n","n","u","a","l"," ","f","e","e">>,
    yearly_fee |-> <<"y","e","a","r","l","y"," ","f","e","e">>,
    joining_fee |-> <<"j","o","i","n","i","n","g"," ","f","e","e">>,
    membership_fee |-> <<"m","e","m","b","e","r","s","h","i","p"," ","f","e","e">>,
    reward |-> <<"r","e","w","a","r","d">>,
    point |-> <<"p","o","i","n","t">>,
    earn |-> <<"e","a","r","n">>,
    cashback |-> <<"c","a","s","h","b","a","c","k">>,
    lounge |-> <<"l","o","u","n","g","e">>,
    airport |-> <<"a","i","r","p","o","r","t">>,
    travel |-> <<"t","r","a","v","e","l">>,
    insurance |-> <<"i","n","s","u","r","a","n","c","e">>,
    interest |-> <<"i","n","t","e","r","e","s","t">>,
    apr |-> <<"a","p","r">>,
    finance |-> <<"f","i","n","a","n","c","e">>,
    eligibility |-> <<"e","l","i","g","i","b","i","l","i","t","y">>,
    criteria |-> <<"c","r","i","t","e","r","i","a">>,
    qualify |-> <<"q","u","a","l","i","f","y">>,
    visa |-> <<"v","i","s","a">>,
    mastercard |-> <<"m","a","s","t","e","r","c","a","r","d">>,
    rupay |-> <<"r","u","p","a","y">>,
    dining |-> <<"d","i","n","i","n","g">>,
    restaurant |-> <<"r","e","s","t","a","u","r","a","n","t">>,
    fuel |-> <<"f","u","e","l">>,
    petrol |-> <<"p","e","t","r","o","l">>,
    gas |-> <<"g","a","s">>,
    grocery |-> <<"g","r","o","c","e","r","y">>,
    supermarket |-> <<"s","u","p","e","r","m","a","r","k","e","t">>,
    fee |-> <<"f","e","e">>,
    fee_structure |-> <<"f","e","e"," ","s","t","r","u","c","t","u","r","e">>,
    charges |-> <<"c","h","a","r","g","e","s">>,
    one_time_fee |-> <<"o","n","e"," ","t","i","m","e"," ","f","e","e">>,
    activation_fee |-> <<"a","c","t","i","v","a","t","i","o","n"," ","f","e","e">>,
    points |-> <<"p","o","i","n","t","s">>,
    cash_back |-> <<"c","a","s","h"," ","b","a","c","k">>,
    qualification |-> <<"q","u","a","l","i","f","i","c","a","t","i","o","n">>,
    requirement |-> <<"r","e","q","u","i","r","e","m","e","n","t">>,
    airport_lounge |-> <<"a","i","r","p","o","r","t"," ","l","o","u","n","g","e">>,
    priority_pass |-> <<"p","r","i","o","r","i","t","y"," ","p","a","s","s">>,
    miles |-> <<"m","i","l","e","s">>,
    air_miles |-> <<"a","i","r"," ","m","i","l","e","s">>,
    flight |-> <<"f","l","i","g","h","t">>,
    premium |-> <<"p","r","e","m","i","u","m">>,
    luxury |-> <<"l","u","x","u","r","y">>,
    elite |-> <<"e","l","i","t","e">>,
    platinum |-> <<"p","l","a","t","i","n","u","m">>,
    hdfc |-> <<"h","d","f","c">>,
    hdfc_bank |-> <<"h","d","f","c"," ","b","a","n","k">>,
    sbi |-> <<"s","b","i">>,
    state_bank |-> <<"s","t","a","t","e"," ","b","a","n","k">>,
    state_bank_of_india |-> <<"s","t","a","t","e"," ","b","a","n","k"," ","o","f"," ","i","n","d","i","a">>,
    icici |-> <<"i","c","i","c","i">>,
    icici_bank |-> <<"i","c","i","c","i"," ","b","a","n","k">>,
    axis |-> <<"a","x","i","s">>,
    axis_bank |-> <<"a","x","i","s"," ","b","a","n","k">>,
    regalia |-> <<"r","e","g","a","l","i","a">>,
    diners |-> <<"d","i","n","e","r","s">>,
    millennia |-> <<"m","i","l","l","e","n","n","i","a">>,
    f_annual_fee |-> <<"a","n","n","u","a","l","_","f","e","e">>,
    f_joining_fee |-> <<"j","o","i","n","i","n","g","_","f","e","e">>,
    f_reward_rate |-> <<"r","e","w","a","r","d","_","r","a","t","e">>,
    hi |-> <<"h","i">>,
    HDFC_Regalia |-> <<"H","D","F","C"," ","R","e","g","a","l","i","a">>,
    HDFC_Bank |-> <<"H","D","F","C"," ","B","a","n","k">>,
    General |-> <<"G","e","n","e","r","a","l">>,
    Fees_and_Charges |-> <<"F","e","e","s"," ","&"," ","C","h","a","r","g","e","s">>,
    Eligibility |-> <<"E","l","i","g","i","b","i","l","i","t","y">>,
    SBI |-> <<"S","B","I">>,
    text |-> <<"t","e","x","t">>,
    no |-> <<"n","o">>
  ]

\* the texts of the queries, cards and chunks the model runs on
Txt ==
  [
    top_new_fee |-> <<"t","o","p"," ","n","e","w"," ","f","e","e">>,
    cards |-> <<"c","a","r","d","s">>,
    hdfc_regalia |-> <<"h","d","f","c"," ","r","e","g","a","l","i","a">>,
    no_annual_fee |-> <<"n","o"," ","a","n","n","u","a","l"," ","f","e","e">>,
    rewards_and_benefits |-> <<"R","e","w","a","r","d","s"," ","&"," ","B","e","n","e","f","i","t","s">>,
    state_bank_of_india |-> <<"S","t","a","t","e"," ","B","a","n","k"," ","o","f"," ","I","n","d","i","a">>,
    cashback |-> <<"C","a","s","h","b","a","c","k">>,
    regalia_1 |-> <<"H","D","F","C"," ","B","a","n","k"," ","R","e","g","a","l","i","a"," ","C","r","e","d","i","t"," ","C","a","r","d"," ","o","f","f","e","r","s"," ","4"," ","r","e","w","a","r","d"," ","p","o","i","n","t","s"," ","p","e","r"," ","R","s","."," ","1","5","0"," ","s","p","e","n","t"," ","o","n"," ","o","n","l","i","n","e"," ","s","h","o","p","p","i","n","g",","," ","d","i","n","i","n","g",","," ","a","n","d"," ","f","u","e","l","."," ","A","n","n","u","a","l"," ","f","e","e"," ","i","s"," ","R","s","."," ","2",",","5","0","0"," ","p","l","u","s"," ","a","p","p","l","i","c","a","b","l","e"," ","t","a","x","e","s","."," ","T","h","e"," ","c","a","r","d"," ","p","r","o","v","i","d","e","s"," ","c","o","m","p","l","i","m","e","n","t","a","r","y"," ","a","i","r","p","o","r","t"," ","l","o","u","n","g","e"," ","a","c","c","e","s","s"," ","u","p"," ","t","o"," ","1","2"," ","t","i","m","e","s"," ","p","e","r"," ","y","e","a","r"," ","d","o","m","e","s","t","i","c","a","l","l","y"," ","a","n","d"," ","6"," ","t","i","m","e","s"," ","i","n","t","e","r","n","a","t","i","o","n","a","l","l","y",".">>,
    regalia_3 |-> <<"H","D","F","C"," ","R","e","g","a","l","i","a"," ","j","o","i","n","i","n","g"," ","f","e","e"," ","i","s"," ","R","s","."," ","2",",","5","0","0"," ","p","l","u","s"," ","t","a","x","e","s","."," ","A","n","n","u","a","l"," ","f","e","e"," ","i","s"," ","R","s","."," ","2",",","5","0","0"," ","w","a","i","v","e","d"," ","o","n"," ","a","n","n","u","a","l"," ","s","p","e","n","d","s"," ","o","f"," ","R","s","."," ","3"," ","l","a","k","h","."," ","I","n","t","e","r","e","s","t"," ","r","a","t","e"," ","o","n"," ","o","u","t","s","t","a","n","d","i","n","g"," ","b","a","l","a","n","c","e","s"," ","i","s"," ","3",".","4","%"," ","p","e","r"," ","m","o","n","t","h"," ","(","4","0",".","8","%"," ","a","n","n","u","a","l","l","y",")",".">>,
    upload_1 |-> <<"S","B","I"," ","C","a","s","h","b","a","c","k"," ","c","a","r","d"," ","g","i","v","e","s"," ","5","%"," ","c","a","s","h","b","a","c","k"," ","o","n"," ","f","u","e","l"," ","a","n","d"," ","d","i","n","i","n","g"," ","s","p","e","n","d","s">>,
    hdfc_bank_sbi |-> <<"h","d","f","c"," ","b","a","n","k"," ","s","b","i">>,
    joining_annual |-> <<"j","o","i","n","i","n","g"," ","f","e","e"," ","a","n","n","u","a","l"," ","f","e","e">>,
    HDFC_Travel |-> <<"H","D","F","C"," ","T","r","a","v","e","l">>
  ]

(***************************************************************************)
(* JavaScript strings                                                      *)
(***************************************************************************)
UpperToLower ==
  [ A |-> "a", B |-> "b", C |-> "c", D |-> "d", E |-> "e", F |-> "f", G |-> "g",
    H |-> "h", I |-> "i", J |-> "j", K |-> "k", L |-> "l", M |-> "m", N |-> "n",
    O |-> "o", P |-> "p", Q |-> "q", R |-> "r", S |-> "s", T |-> "t", U |-> "u",
    V |-> "v", W |-> "w", X |-> "x", Y |-> "y", Z |-> "z" ]

\* String.prototype.toLowerCase
toLowerCase(s) ==
  [i \in 1..Len(s) |-> IF s[i] \in DOMAIN UpperToLower THEN UpperToLower[s[i]] ELSE s[i]]

\* String.prototype.includes: t occurs in s as a contiguous substring
includes(s, t) ==
  \E i \in 1..(Len(s) - Len(t) + 1) : SubSeq(s, i, i + Len(t) - 1) = t

\* s.split(' '): every single space separates, empty tokens are kept
RECURSIVE split(_)
split(s) ==
  IF \A i \in 1..Len(s) : s[i] # " " THEN <<s>>
  ELSE LET i == CHOOSE k \in 1..Len(s) : s[k] = " " /\ \A j \in 1..(k - 1) : s[j] # " "
       IN  <<SubSeq(s, 1, i - 1)>> \o split(SubSeq(s, i + 1, Len(s)))

\* s.split(/\s+/): runs of white space separate; a leading or trailing run
\* leaves one empty token at that end
splitWs(s) ==
  LET toks == split(s)
      mid  == SelectSeq(toks, LAMBDA w : w # <<>>)
  IN  (IF toks[1] = <<>> THEN << <<>> >> ELSE <<>>)
      \o mid
      \o (IF Len(toks) > 1 /\ toks[Len(toks)] = <<>> THEN << <<>> >> ELSE <<>>)

\* Array.prototype.join(' ')
RECURSIVE join(_)
join(ws) ==
  IF ws = <<>> THEN <<>>
  ELSE IF Len(ws) = 1 THEN ws[1]
  ELSE ws[1] \o <<" ">> \o join(Tail(ws))

\* String.prototype.trim
RECURSIVE trim(_)
trim(s) ==
  IF s = <<>> THEN s
  ELSE IF s[1] = " " THEN trim(Tail(s))
  ELSE IF s[Len(s)] = " " THEN trim(SubSeq(s, 1, Len(s) - 1))
  ELSE s

\* query.toLowerCase().split(' ').filter(word => word.length > 2)
QueryWords(queryLower) == SelectSeq(split(queryLower), LAMBDA w : Len(w) > 2)

Range(f) == {f[i] : i \in DOMAIN f}

(***************************************************************************)
(* JavaScript numbers                                                      *)
(***************************************************************************)
ONE == 120000
NaN == 0 - 1

Frac(n, d) == (n * ONE) \div d

JsAdd(a, b) == IF a = NaN \/ b = NaN THEN NaN ELSE a + b
JsScale(a, n, d) == IF a = NaN THEN NaN ELSE (a * n) \div d
JsGt(a, b) == a # NaN /\ b # NaN /\ a > b
JsLt(a, b) == a # NaN /\ b # NaN /\ a < b
JsMin(a, b) == IF a = NaN \/ b = NaN THEN NaN ELSE IF a < b THEN a ELSE b
JsMax(a, b) == IF a = NaN \/ b = NaN THEN NaN ELSE IF a > b THEN a ELSE b
\* m / n for two array lengths with m <= n: 0 / 0 is NaN
JsRatio(m, n) == IF n = 0 THEN NaN ELSE (m * ONE) \div n
\* Math.round(x * 100)
RoundPercent(x) == IF x = NaN THEN NaN ELSE (x * 100 + ONE \div 2) \div ONE

(***************************************************************************)
(* vectorSearch.ts: the similarity scorers                                 *)
(***************************************************************************)
\* the paired feature tests of computeAdvancedSimilarity: each row holds the
\* query-side alternatives and the content-side alternatives
AdvancedFeatures ==
  << [q |-> {Lit.annual_fee, Lit.yearly_fee},      c |-> {Lit.annual_fee, Lit.yearly_fee}],
     [q |-> {Lit.joining_fee, Lit.membership_fee}, c |-> {Lit.joining_fee, Lit.membership_fee}],
     [q |-> {Lit.reward, Lit.point},               c |-> {Lit.reward, Lit.point, Lit.earn}],
     [q |-> {Lit.cashback},                        c |-> {Lit.cashback}],
     [q |-> {Lit.lounge, Lit.airport},             c |-> {Lit.lounge, Lit.airport}],
     [q |-> {Lit.travel, Lit.insurance},           c |-> {Lit.travel, Lit.insurance}],
     [q |-> {Lit.interest, Lit.apr},               c |-> {Lit.interest, Lit.apr, Lit.finance}],
     [q |-> {Lit.eligibility, Lit.criteria},       c |-> {Lit.eligibility, Lit.criteria, Lit.qualify}],
     [q |-> {Lit.visa},                            c |-> {Lit.visa}],
     [q |-> {Lit.mastercard},                      c |-> {Lit.mastercard}],
     [q |-> {Lit.rupay},                           c |-> {Lit.rupay}],
     [q |-> {Lit.dining, Lit.restaurant},          c |-> {Lit.dining, Lit.restaurant}],
     [q |-> {Lit.fuel, Lit.petrol, Lit.gas},       c |-> {Lit.fuel, Lit.petrol, Lit.gas}],
     [q |-> {Lit.grocery, Lit.supermarket},        c |-> {Lit.grocery, Lit.supermarket}] >>

\* featureMatches.filter(Boolean).length for a table of paired tests
FeatureMatchCount(table, queryLower, contentLower) ==
  Len(SelectSeq(table, LAMBDA row : (\E k \in row.q : includes(queryLower, k))
                            /\ (\E k \in row.c : includes(contentLower, k))))

ShortContent == 50
LongContent == 200

\* the query words that contain, or are contained in, a word of the content
AdvancedMatchingWords(queryWords, contentLower) ==
  LET contentWords == Range(splitWs(contentLower))
  IN  SelectSeq(queryWords, LAMBDA word :
        \E contentWord \in contentWords :
          includes(contentWord, word) \/ includes(word, contentWord))

\* the cardName, bankName and section bonuses of computeAdvancedSimilarity
AdvancedMetadataBoost(queryLower, metadata) ==
  LET cardNameLower == toLowerCase(metadata.cardName)
      bankNameLower == toLowerCase(metadata.bankName)
      sectionLower  == toLowerCase(metadata.section)
  IN  (IF metadata.cardName # <<>>
          /\ (includes(queryLower, cardNameLower) \/ includes(cardNameLower, queryLower))
       THEN Frac(3, 10) ELSE 0)
      + (IF metadata.bankName # <<>>
            /\ (includes(queryLower, bankNameLower) \/ includes(bankNameLower, queryLower))
         THEN Frac(2, 10) ELSE 0)
      + (IF metadata.section # <<>> /\ includes(queryLower, split(sectionLower)[1])
         THEN Frac(15, 100) ELSE 0)

computeAdvancedSimilarity(query, content, metadata) ==
  LET queryLower   == toLowerCase(query)
      contentLower == toLowerCase(content)
      queryWords   == QueryWords(queryLower)
      exact        == IF includes(contentLower, queryLower) THEN Frac(5, 10) ELSE 0
      matchingWords  == AdvancedMatchingWords(queryWords, contentLower)
      wordMatchScore == JsRatio(Len(matchingWords), Len(queryWords))
      featureBoost == FeatureMatchCount(AdvancedFeatures, queryLower, contentLower) * Frac(8, 100)
      summed == JsAdd(JsAdd(JsAdd(exact, JsScale(wordMatchScore, 4, 10)),
                            AdvancedMetadataBoost(queryLower, metadata)), featureBoost)
      penalised == IF Len(content) < ShortContent THEN JsScale(summed, 5, 10) ELSE summed
      boosted   == IF Len(content) > LongContent THEN JsScale(penalised, 11, 10) ELSE penalised
  IN  JsMin(boosted, ONE)

\* the feature tests of computeEnhancedSimilarity
EnhancedFeatures ==
  << [q |-> {Lit.annual_fee},  c |-> {Lit.annual_fee}],
     [q |-> {Lit.reward},      c |-> {Lit.reward, Lit.point}],
     [q |-> {Lit.cashback},    c |-> {Lit.cashback}],
     [q |-> {Lit.lounge},      c |-> {Lit.lounge}],
     [q |-> {Lit.travel},      c |-> {Lit.travel}],
     [q |-> {Lit.interest},    c |-> {Lit.interest}],
     [q |-> {Lit.eligibility}, c |-> {Lit.eligibility}] >>

\* basicScore of the two enhanced scorers: whole-word intersection over
\* the query words
BasicScore(queryWords, contentLower) ==
  LET contentWords == Range(split(contentLower))
      intersection == SelectSeq(queryWords, LAMBDA word : word \in contentWords)
  IN  JsRatio(Len(intersection), Len(queryWords))

computeEnhancedSimilarity(query, content, metadata) ==
  LET queryLower   == toLowerCase(query)
      contentLower == toLowerCase(content)
      queryWords   == QueryWords(queryLower)
      basicScore   == BasicScore(queryWords, contentLower)
      card == IF metadata.cardName # <<>> /\ includes(queryLower, toLowerCase(metadata.cardName))
              THEN Frac(3, 10) ELSE 0
      bank == IF metadata.bankName # <<>> /\ includes(queryLower, toLowerCase(metadata.bankName))
              THEN Frac(2, 10) ELSE 0
      featureBoost == FeatureMatchCount(EnhancedFeatures, queryLower, contentLower) * Frac(1, 10)
  IN  JsMin(JsAdd(JsAdd(JsScale(basicScore, 6, 10), card + bank), featureBoost), ONE)

\* the preciseMatches of computeEnhancedSimilarityWithMapping
PreciseFeatures ==
  << [q |-> {Lit.annual_fee},  c |-> {Lit.annual_fee}],
     [q |-> {Lit.joining_fee}, c |-> {Lit.joining_fee}],
     [q |-> {Lit.reward},      c |-> {Lit.reward, Lit.point}],
     [q |-> {Lit.cashback},    c |-> {Lit.cashback}],
     [q |-> {Lit.lounge},      c |-> {Lit.lounge}],
     [q |-> {Lit.travel},      c |-> {Lit.travel}],
     [q |-> {Lit.interest},    c |-> {Lit.interest}],
     [q |-> {Lit.eligibility}, c |-> {Lit.eligibility}] >>

\* categoryBoost of computeEnhancedSimilarityWithMapping
CategoryBoost(contentLower, metadata, filters) ==
  LET bankMatch ==
        \E i \in DOMAIN filters.banks :
          \/ includes(contentLower, toLowerCase(filters.banks[i]))
          \/ metadata.bankName # <<>>
             /\ includes(toLowerCase(metadata.bankName), toLowerCase(filters.banks[i]))
      featureMatches ==
        Len(SelectSeq(filters.features, LAMBDA f : includes(contentLower, toLowerCase(f))))
      typeMatch ==
        \E i \in DOMAIN filters.cardTypes : includes(contentLower, toLowerCase(filters.cardTypes[i]))
  IN  (IF filters.banks # <<>> /\ bankMatch THEN Frac(4, 10) ELSE 0)
      + (IF filters.features # <<>>
         THEN (JsRatio(featureMatches, Len(filters.features)) * 3) \div 10 ELSE 0)
      + (IF filters.cardTypes # <<>> /\ typeMatch THEN Frac(2, 10) ELSE 0)

computeEnhancedSimilarityWithMapping(query, content, metadata, mapping) ==
  LET queryLower   == toLowerCase(query)
      contentLower == toLowerCase(content)
      queryWords   == QueryWords(queryLower)
      basicScore   == BasicScore(queryWords, contentLower)
      categoryBoost == CategoryBoost(contentLower, metadata, mapping.suggestedFilters)
      card == IF metadata.cardName # <<>> /\ includes(queryLower, toLowerCase(metadata.cardName))
              THEN Frac(15, 100) ELSE 0
      bank == IF metadata.bankName # <<>> /\ includes(queryLower, toLowerCase(metadata.bankName))
              THEN Frac(1, 10) ELSE 0
      preciseBoost == FeatureMatchCount(PreciseFeatures, queryLower, contentLower) * Frac(5, 100)
  IN  JsMin(JsAdd(JsAdd(JsAdd(JsAdd(JsScale(basicScore, 4, 10), (categoryBoost * 3) \div 10),
                              card + bank),
                        (mapping.confidence * 1) \div 10),
                  preciseBoost), ONE)

(***************************************************************************)
(* queryMapper.ts: the rule table and mapQuery                             *)
(***************************************************************************)
Mappings ==
  << [keywords |-> <<Lit.annual_fee, Lit.yearly_fee, Lit.fee_structure, Lit.charges>>,
      category |-> "fees", priority |-> 10,
      bankNames |-> <<>>, cardTypes |-> <<>>, features |-> <<Lit.f_annual_fee, Lit.f_joining_fee>>],
     [keywords |-> <<Lit.joining_fee, Lit.one_time_fee, Lit.activation_fee>>,
      category |-> "joining_fees", priority |-> 10,
      bankNames |-> <<>>, cardTypes |-> <<>>, features |-> <<Lit.f_joining_fee>>],
     [keywords |-> <<Lit.reward, Lit.points, Lit.cashback, Lit.cash_back>>,
      category |-> "rewards", priority |-> 9,
      bankNames |-> <<>>, cardTypes |-> <<>>, features |-> <<Lit.f_reward_rate, Lit.cashback>>],
     [keywords |-> <<Lit.eligibility, Lit.qualification, Lit.criteria, Lit.requirement>>,
      category |-> "eligibility", priority |-> 8,
      bankNames |-> <<>>, cardTypes |-> <<>>, features |-> <<Lit.eligibility>>],
     [keywords |-> <<Lit.lounge, Lit.airport_lounge, Lit.priority_pass>>,
      category |-> "lounge_access", priority |-> 7,
      bankNames |-> <<>>, cardTypes |-> <<>>, features |-> <<Lit.lounge, Lit.airport>>],
     [keywords |-> <<Lit.travel, Lit.miles, Lit.air_miles, Lit.flight>>,
      category |-> "travel_benefits", priority |-> 7,
      bankNames |-> <<>>, cardTypes |-> <<Lit.travel>>, features |-> <<>>],
     [keywords |-> <<Lit.premium, Lit.luxury, Lit.elite, Lit.platinum>>,
      category |-> "premium_cards", priority |-> 6,
      bankNames |-> <<>>, cardTypes |-> <<Lit.premium, Lit.platinum>>, features |-> <<>>],
     [keywords |-> <<Lit.hdfc, Lit.hdfc_bank>>,
      category |-> "bank_specific", priority |-> 9,
      bankNames |-> <<Lit.hdfc, Lit.hdfc_bank>>, cardTypes |-> <<>>, features |-> <<>>],
     [keywords |-> <<Lit.sbi, Lit.state_bank>>,
      category |-> "bank_specific", priority |-> 9,
      bankNames |-> <<Lit.sbi, Lit.state_bank_of_india>>, cardTypes |-> <<>>, features |-> <<>>],
     [keywords |-> <<Lit.icici, Lit.icici_bank>>,
      category |-> "bank_specific", priority |-> 9,
      bankNames |-> <<Lit.icici, Lit.icici_bank>>, cardTypes |-> <<>>, features |-> <<>>],
     [keywords |-> <<Lit.axis, Lit.axis_bank>>,
      category |-> "bank_specific", priority |-> 9,
      bankNames |-> <<Lit.axis, Lit.axis_bank>>, cardTypes |-> <<>>, features |-> <<>>],
     [keywords |-> <<Lit.regalia, Lit.diners, Lit.millennia>>,
      category |-> "card_specific", priority |-> 10,
      bankNames |-> <<>>, cardTypes |-> <<>>, features |-> <<>>] >>

\* variant of GeneralMapping that falls back to the first rule of the
\* table; C17 fails with it
FirstRuleMapping ==
  [keywords |-> <<Lit.annual_fee, Lit.yearly_fee, Lit.fee_structure, Lit.charges>>,
   category |-> "fees", priority |-> 10,
   bankNames |-> <<>>, cardTypes |-> <<>>, features |-> <<Lit.f_annual_fee, Lit.f_joining_fee>>]

\* the fallback rule of mapQuery
GeneralMapping ==
  [keywords |-> <<>>, category |-> "general", priority |-> 1,
   bankNames |-> <<>>, cardTypes |-> <<>>, features |-> <<>>]

\* Map.prototype.set on the insertion-ordered allMatches: an existing key
\* keeps its position and takes the new value
MapSet(allMatches, entry) ==
  IF \E i \in DOMAIN allMatches : allMatches[i].mapping.category = entry.mapping.category
  THEN [i \in DOMAIN allMatches |->
          IF allMatches[i].mapping.category = entry.mapping.category THEN entry
          ELSE allMatches[i]]
  ELSE Append(allMatches, entry)

\* directMatches.forEach: every rule with a keyword inside the query
RECURSIVE DirectPass(_, _, _)
DirectPass(queryLower, i, allMatches) ==
  IF i > Len(Mappings) THEN allMatches
  ELSE LET mapping == Mappings[i]
           matchedKeywords ==
             SelectSeq(mapping.keywords, LAMBDA k : includes(queryLower, toLowerCase(k)))
           confidence ==
             JsMin(Frac(9, 10),
                   (JsRatio(Len(matchedKeywords), Len(mapping.keywords)) * 8) \div 10 + Frac(1, 10))
       IN  DirectPass(queryLower, i + 1,
             IF matchedKeywords = <<>> THEN allMatches
             ELSE MapSet(allMatches, [mapping |-> mapping, confidence |-> confidence,
                                      matchedKeywords |-> matchedKeywords]))

\* fuzzyResults.forEach: a Fuse result { item, score, matches } is taken when
\* its score is truthy and below 0.6
RECURSIVE FuzzyPass(_, _, _)
FuzzyPass(fuzzyResults, i, allMatches) ==
  IF i > Len(fuzzyResults) THEN allMatches
  ELSE LET result     == fuzzyResults[i]
           mapping    == Mappings[result.item]
           confidence == ONE - result.score
           existing   == {j \in DOMAIN allMatches :
                            allMatches[j].mapping.category = mapping.category}
       IN  FuzzyPass(fuzzyResults, i + 1,
             IF result.score # 0 /\ result.score < Frac(6, 10)
                /\ (existing = {} \/ \E j \in existing : allMatches[j].confidence < confidence)
             THEN MapSet(allMatches, [mapping |-> mapping, confidence |-> confidence,
                                      matchedKeywords |-> result.matches])
             ELSE allMatches)

\* variant of BestMatch that sorts by confidence alone; C18 fails with it
BestMatchByConfidence(allMatches) ==
  LET best == CHOOSE i \in DOMAIN allMatches :
                /\ \A j \in DOMAIN allMatches : allMatches[j].confidence <= allMatches[i].confidence
                /\ \A j \in 1..(i - 1) : allMatches[j].confidence < allMatches[i].confidence
  IN  IF allMatches = <<>>
      THEN [mapping |-> GeneralMapping, confidence |-> Frac(1, 10), matchedKeywords |-> <<>>]
      ELSE allMatches[best]

\* Array.from(allMatches.values()).sort(priority desc, confidence desc)[0]:
\* the sort is stable, so the first of the best entries wins
BestMatch(allMatches) ==
  LET Before(a, b) == \/ a.mapping.priority > b.mapping.priority
                      \/ a.mapping.priority = b.mapping.priority /\ a.confidence > b.confidence
      best == CHOOSE i \in DOMAIN allMatches :
                /\ \A j \in DOMAIN allMatches : ~Before(allMatches[j], allMatches[i])
                /\ \A j \in 1..(i - 1) : Before(allMatches[j], allMatches[i])
                                         \/ Before(allMatches[i], allMatches[j])
  IN  IF allMatches = <<>>
      THEN [mapping |-> GeneralMapping, confidence |-> Frac(1, 10), matchedKeywords |-> <<>>]
      ELSE allMatches[best]

\* The Fuse engine of the constructor: keys ['keywords'], threshold 0.4.
\* SubstringDistance is the least number of edits (insert, delete, replace)
\* that turn pattern into a stretch of text; row[j + 1] is the distance of
\* the first i - 1 characters of pattern to a stretch that ends at text[j]
RECURSIVE EditRow(_, _, _, _, _)
EditRow(pattern, text, i, row, new) ==
  IF Len(new) > Len(text) THEN new
  ELSE LET j       == Len(new)
           replace == row[j] + (IF pattern[i] = text[j] THEN 0 ELSE 1)
           delete  == row[j + 1] + 1
           insert  == new[j] + 1
           least   == IF replace < delete THEN replace ELSE delete
       IN  EditRow(pattern, text, i, row,
                   Append(new, IF insert < least THEN insert ELSE least))

RECURSIVE EditRows(_, _, _, _)
EditRows(pattern, text, i, row) ==
  IF i > Len(pattern) THEN row
  ELSE LET next == EditRow(pattern, text, i, row, <<i>>)
       IN  IF Len(next) = Len(row) THEN EditRows(pattern, text, i + 1, next) ELSE row

SubstringDistance(pattern, text) ==
  LET last == EditRows(pattern, text, 1, [j \in 1..(Len(text) + 1) |-> 0])
  IN  CHOOSE d \in Range(last) : \A e \in Range(last) : d <= e

FuseThreshold == Frac(4, 10)

\* variant of FuseNear with the default threshold of Fuse, 0.6; C16 fails
\* with it
FuseNearDefault(pattern, keyword) ==
  SubstringDistance(pattern, toLowerCase(keyword)) * ONE <= Frac(6, 10) * Len(pattern)

\* a keyword matches a pattern only if its score, errors / pattern length
\* plus a penalty for the place of the match, is within the threshold
FuseNear(pattern, keyword) ==
  SubstringDistance(pattern, toLowerCase(keyword)) * ONE <= FuseThreshold * Len(pattern)

\* result.matches of rule i: the keywords of the rule that match
FuseMatches(pattern, i) ==
  SelectSeq(Mappings[i].keywords, LAMBDA k : FuseNear(pattern, k))

\* the lists this.fuse.search(queryWords.join(' ')) can return, cut at
\* maxResults entries: rules with a matching keyword, each once, with a
\* score; a score of 0.7 is not taken by mapQuery, nor is one of 0
FuseSearch(query, maxResults) ==
  LET pattern == join(QueryWords(toLowerCase(query)))
      results == {[item |-> i, score |-> s, matches |-> FuseMatches(pattern, i)] :
                    i \in {r \in DOMAIN Mappings : FuseMatches(pattern, r) # <<>>},
                    s \in {0, Frac(3, 10), Frac(7, 10)}}
  IN  {l \in UNION {[1..k -> results] : k \in 0..maxResults} :
         \A a, b \in DOMAIN l : a # b => l[a].item # l[b].item}

\* allMatches after the direct and the fuzzy pass
MergedMatches(query, fuzzyResults) ==
  FuzzyPass(fuzzyResults, 1, DirectPass(toLowerCase(query), 1, <<>>))

mapQuery(query, fuzzyResults) ==
  LET queryLower == toLowerCase(query)
      allMatches == FuzzyPass(fuzzyResults, 1, DirectPass(queryLower, 1, <<>>))
      bestMatch  == BestMatch(allMatches)
  IN  [category |-> bestMatch.mapping.category,
       confidence |-> bestMatch.confidence,
       matchedKeywords |-> bestMatch.matchedKeywords,
       suggestedFilters |-> [banks |-> bestMatch.mapping.bankNames,
                             cardTypes |-> bestMatch.mapping.cardTypes,
                             features |-> bestMatch.mapping.features]]

\* variant of Dedupe that keeps every term; C20 fails with it
KeepAll(terms) == terms

\* [...new Set(terms)]: first occurrences, in order
RECURSIVE Dedupe(_)
Dedupe(terms) ==
  IF terms = <<>> THEN <<>>
  ELSE LET init == SubSeq(terms, 1, Len(terms) - 1)
           last == terms[Len(terms)]
       IN  IF last \in Range(init) THEN Dedupe(init) ELSE Append(Dedupe(init), last)

generateSearchTerms(query, mapping) ==
  Dedupe(QueryWords(toLowerCase(query))
         \o mapping.suggestedFilters.features
         \o mapping.suggestedFilters.banks
         \o mapping.suggestedFilters.cardTypes)

(***************************************************************************)
(* Arrays                                                                  *)
(***************************************************************************)
\* Array.prototype.slice(0, n)
Take(seq, n) == SubSeq(seq, 1, IF Len(seq) < n THEN Len(seq) ELSE n)

\* Array.prototype.sort((a, b) => key(b) - key(a)): descending and stable;
\* keys[i] is the key of items[i]
SortDescending(items, keys) ==
  LET rank(i) == Cardinality({j \in DOMAIN items : keys[j] > keys[i]})
                 + Cardinality({j \in 1..(i - 1) : keys[j] = keys[i]}) + 1
  IN  [p \in DOMAIN items |-> items[CHOOSE i \in DOMAIN items : rank(i) = p]]

(***************************************************************************)
(* useCreditCardApi.ts: searchCards                                        *)
(***************************************************************************)
\* featureWords of the relevance score
CardFeatureWords ==
  <<Lit.reward, Lit.cashback, Lit.lounge, Lit.travel, Lit.fuel, Lit.dining, Lit.fee>>

\* the relevance score searchCards gives one card
CardScore(card, queryLower, queryWords) ==
  LET searchableText ==
        toLowerCase(join(<<card.card_name, card.bank_name, card.key_features,
                           card.benefits, card.reward_rate, card.eligibility>>))
      WordIn(text) == \E i \in DOMAIN queryWords : includes(toLowerCase(text), queryWords[i])
  IN  (IF includes(searchableText, queryLower) THEN 10 ELSE 0)
      + 2 * Len(SelectSeq(queryWords, LAMBDA word : includes(searchableText, word)))
      + (IF card.bank_name # <<>> /\ WordIn(card.bank_name) THEN 5 ELSE 0)
      + (IF card.card_name # <<>> /\ WordIn(card.card_name) THEN 5 ELSE 0)
      + 3 * Len(SelectSeq(CardFeatureWords, LAMBDA feature :
                    includes(queryLower, feature) /\ includes(searchableText, feature)))

FilteredCap == 15
UnfilteredCap == 12

\* the value searchCards resolves to for one outcome of its fetch; the catch
\* block turns every exception into the empty list
searchCards(query, fetched) ==
  IF fetched.kind # "json" THEN <<>>              \* fetch rejected, !response.ok, json() rejected
  ELSE IF fetched.shape \notin {"data", "array"} THEN <<>>   \* null body, or no array in it
  ELSE LET cards == fetched.cards
           queryLower == toLowerCase(query)
           queryWords == QueryWords(queryLower)
           scores == [i \in DOMAIN cards |-> CardScore(cards[i], queryLower, queryWords)]
           kept   == {i \in DOMAIN cards : scores[i] > 0}
           keptSeq == SelectSeq([i \in DOMAIN cards |-> i], LAMBDA i : i \in kept)
           sorted == SortDescending([k \in DOMAIN keptSeq |-> cards[keptSeq[k]]],
                                    [k \in DOMAIN keptSeq |-> scores[keptSeq[k]]])
       IN  IF query # <<>> /\ Len(trim(query)) > 2 /\ cards # <<>>
           THEN IF \E i \in DOMAIN cards : ~cards[i].ok
                THEN <<>>                          \* card.card_name of null throws
                ELSE Take(sorted, FilteredCap)
           ELSE Take(cards, UnfilteredCap)

(***************************************************************************)
(* openai.ts: queryOpenAI                                                  *)
(***************************************************************************)
DefaultConfidence == 70
ErrorConfidence == 30

\* the record queryOpenAI resolves to for one outcome of the edge-function
\* call; it never rejects
queryOpenAI(invoked) ==
  IF invoked.kind = "data"
  THEN [text |-> "generated",
        confidence |-> IF invoked.confidence # 0 THEN invoked.confidence ELSE DefaultConfidence]
  ELSE [text |-> "service-difficulties", confidence |-> ErrorConfidence]

(***************************************************************************)
(* vectorSearch.ts: ranked retrieval over the index                        *)
(***************************************************************************)
SearchFloor == Frac(1, 10)

\* variant of RankResults without the filter; C11 fails with it
RankResultsUnfiltered(docs, similarities, topK) ==
  LET scored == [i \in DOMAIN docs |-> [chunk |-> docs[i], similarity |-> similarities[i]]]
      sorted == SortDescending(scored, [i \in DOMAIN scored |-> scored[i].similarity])
  IN  Take(sorted, topK)

\* variant of RankResults without the sort; C12 fails with it
RankResultsUnsorted(docs, similarities, topK) ==
  LET scored == [i \in DOMAIN docs |-> [chunk |-> docs[i], similarity |-> similarities[i]]]
      above  == SelectSeq(scored, LAMBDA r : JsGt(r.similarity, SearchFloor))
  IN  Take(above, topK)

\* documents.map(score).filter(similarity > 0.1).sort(descending).slice(0, topK),
\* similarities[i] being the score of docs[i]
RankResults(docs, similarities, topK) ==
  LET scored == [i \in DOMAIN docs |-> [chunk |-> docs[i], similarity |-> similarities[i]]]
      above  == SelectSeq(scored, LAMBDA r : JsGt(r.similarity, SearchFloor))
      sorted == SortDescending(above, [i \in DOMAIN above |-> above[i].similarity])
  IN  Take(sorted, topK)

\* VectorSearchEngine.search of the revision with computeAdvancedSimilarity
search(docs, query, topK) ==
  RankResults(docs,
    [i \in DOMAIN docs |-> computeAdvancedSimilarity(query, docs[i].content, docs[i].metadata)],
    topK)

\* VectorSearchEngine.search of the revision with computeEnhancedSimilarity
searchEnhanced(docs, query, topK) ==
  RankResults(docs,
    [i \in DOMAIN docs |-> computeEnhancedSimilarity(query, docs[i].content, docs[i].metadata)],
    topK)

searchWithMapping(docs, query, mapping, topK) ==
  RankResults(docs,
    [i \in DOMAIN docs |->
       computeEnhancedSimilarityWithMapping(query, docs[i].content, docs[i].metadata, mapping)],
    topK)

(***************************************************************************)
(* useRAGSearch.ts: the pieces of searchWithRAG                            *)
(***************************************************************************)
Revisions == {"current", "mapped", "basic"}

\* the query handed to searchCards
PrimaryQuery(r, query, mapping) ==
  IF r = "mapped"
  THEN LET terms == join(Take(generateSearchTerms(query, mapping), 3))
       IN  IF terms # <<>> THEN terms ELSE query
  ELSE query

\* topK and the similarity floor of the document tier
DocumentTopK(r) == IF r = "current" THEN 4 ELSE 3
DocumentFloor(r) == IF r = "current" THEN Frac(15, 100) ELSE Frac(3, 10)

\* the document-tier search each revision calls
DocumentSearch(r, docs, query, mapping) ==
  CASE r = "current" -> search(docs, query, DocumentTopK(r))
    [] r = "mapped"  -> searchWithMapping(docs, query, mapping, DocumentTopK(r))
    [] r = "basic"   -> searchEnhanced(docs, query, DocumentTopK(r))

\* a property read of a null card throws a TypeError
HasNull(cards) == \E i \in DOMAIN cards : ~cards[i].ok

\* formatApiResponse (current) reads cards[0], or the first four cards
formatApiResponseThrows(cards) ==
  IF Len(cards) = 1 THEN HasNull(cards) ELSE HasNull(Take(cards, 4))

\* formatApiResponseBasic reads cards[0], or the first three cards
formatApiResponseBasicThrows(cards) ==
  IF Len(cards) = 1 THEN HasNull(cards) ELSE HasNull(Take(cards, 3))

\* filterApiResults: with mapping confidence of 0.3 or more, keep the cards
\* whose text holds one of the suggested banks and one of the suggested features
filterApiResults(cards, mapping) ==
  IF mapping.confidence < Frac(3, 10) THEN cards
  ELSE SelectSeq(cards, LAMBDA card :
         LET cardText == toLowerCase(join(<<card.card_name, card.bank_name, card.key_features,
                                            card.benefits, card.reward_rate, card.eligibility>>))
             banks    == mapping.suggestedFilters.banks
             features == mapping.suggestedFilters.features
         IN  /\ banks # <<>> =>
                  \E i \in DOMAIN banks : includes(cardText, toLowerCase(banks[i]))
             /\ features # <<>> =>
                  \E i \in DOMAIN features : includes(cardText, toLowerCase(features[i])))

filterApiResultsThrows(cards, mapping) ==
  mapping.confidence >= Frac(3, 10) /\ HasNull(cards)

NoResponse ==
  [text |-> "none", source |-> "none", confidence |-> 0,
   hasData |-> FALSE, data |-> <<>>,
   hasSourceDocuments |-> FALSE, sourceDocuments |-> <<>>]

\* the response of the catch block
Apology ==
  [NoResponse EXCEPT !.text = "apology", !.source = "OpenAI", !.confidence = 20]

ApiDataCap == 6

\* variant of ApiResponse that hands on every card (no slice(0, 6)); C1 must
\* tell it from ApiResponse
ApiResponseUncapped(r, text, cards, mapping) ==
  [NoResponse EXCEPT
     !.text = text, !.source = "API", !.confidence = 88,
     !.hasData = TRUE, !.data = cards]

\* the API-tier response; text is what formatted the cards
ApiResponse(r, text, cards, mapping) ==
  [NoResponse EXCEPT
     !.text = text, !.source = "API",
     !.confidence = CASE r = "current" -> 88
                      [] r = "basic"   -> 90
                      [] r = "mapped"  ->
                           LET c == RoundPercent(mapping.confidence) + 10
                           IN  IF c < 95 THEN c ELSE 95,
     !.hasData = TRUE,
     !.data = IF r = "current" THEN Take(cards, ApiDataCap) ELSE cards]

\* variant of MitcResponse that reports the last result's similarity and keeps
\* the top result only; C2 must tell it from MitcResponse
MitcResponseTopOnly(results) ==
  [NoResponse EXCEPT
     !.text = "mitc", !.source = "MITC",
     !.confidence = RoundPercent(results[Len(results)].similarity),
     !.hasSourceDocuments = TRUE, !.sourceDocuments = Take(results, 1)]

\* variant of MitcResponse that also carries card data; C7 must tell it from
\* MitcResponse
MitcResponseWithData(results) ==
  [NoResponse EXCEPT
     !.text = "mitc", !.source = "MITC",
     !.confidence = RoundPercent(results[1].similarity),
     !.hasData = TRUE,
     !.hasSourceDocuments = TRUE, !.sourceDocuments = results]

MitcResponse(results) ==
  [NoResponse EXCEPT
     !.text = "mitc", !.source = "MITC",
     !.confidence = RoundPercent(results[1].similarity),
     !.hasSourceDocuments = TRUE, !.sourceDocuments = results]

OpenAIFloor == 40

\* variant of OpenAIResponse without Math.max(confidence, 40); C3 must tell it
\* from OpenAIResponse
OpenAIResponseAsReported(r, reply) ==
  [NoResponse EXCEPT
     !.text = reply.text, !.source = "OpenAI", !.confidence = reply.confidence]

\* variant of OpenAIResponse that adds the floor to the reported confidence
\* instead of taking the larger of the two; C24 fails with it
OpenAIResponseRaised(r, reply) ==
  [NoResponse EXCEPT
     !.text = reply.text, !.source = "OpenAI",
     !.confidence = JsAdd(reply.confidence, OpenAIFloor)]

OpenAIResponse(r, reply) ==
  [NoResponse EXCEPT
     !.text = reply.text, !.source = "OpenAI",
     !.confidence = IF r = "current" THEN JsMax(reply.confidence, OpenAIFloor)
                    ELSE reply.confidence]

(***************************************************************************)
(* Inputs of the model                                                     *)
(***************************************************************************)
MaxDocuments == 3
MaxCards == 2
MaxFuzzyResults == 1

Queries == {Lit.annual_fee, Lit.hi, Txt.top_new_fee, Txt.hdfc_regalia, Txt.cards}

EmptyCard ==
  [ok |-> TRUE, card_name |-> <<>>, bank_name |-> <<>>, key_features |-> <<>>,
   benefits |-> <<>>, reward_rate |-> <<>>, eligibility |-> <<>>, annual_fee |-> <<>>]

\* the card records a response of the card service holds; NullCard is a
\* null element of the JSON array
CardHdfc == [EmptyCard EXCEPT !.card_name = Lit.HDFC_Regalia, !.bank_name = Lit.HDFC_Bank,
                              !.key_features = Lit.lounge]
CardSbi  == [EmptyCard EXCEPT !.card_name = Lit.SBI, !.bank_name = Lit.SBI,
                              !.key_features = Txt.no_annual_fee]
NullCard == [EmptyCard EXCEPT !.ok = FALSE]

SeqsUpTo(S, n) == UNION {[1..k -> S] : k \in 0..n}

CardLists ==
  SeqsUpTo({CardHdfc, CardSbi, NullCard}, MaxCards)
  \cup {[i \in 1..(ApiDataCap + 1) |-> IF i % 2 = 1 THEN CardSbi ELSE CardHdfc]}

\* what the fetch of searchCards can come to
FetchOutcomes ==
  {[kind |-> k, shape |-> "none", cards |-> <<>>] : k \in {"reject", "status", "badJson"}}
  \cup {[kind |-> "json", shape |-> s, cards |-> <<>>] : s \in {"null", "other"}}
  \cup {[kind |-> "json", shape |-> s, cards |-> c] : s \in {"data", "array"}, c \in CardLists}

ServiceConfidences == {0, 20, 85}

\* what supabase.functions.invoke can come to; confidence 0 stands for a
\* reply without a (truthy) confidence
InvokeOutcomes ==
  {[kind |-> k, confidence |-> 0] : k \in {"reject", "error", "noData"}}
  \cup {[kind |-> "data", confidence |-> c] : c \in ServiceConfidences}

\* result lists of the Fuse engine the orchestrator runs are drawn from
FuzzyItems == {1, 6, 8}
FuseScores == {0, Frac(3, 10)}
FuzzyOutcomes ==
  SeqsUpTo({[item |-> i, score |-> s, matches |-> <<Mappings[i].keywords[1]>>] :
              i \in FuzzyItems, s \in FuseScores}, MaxFuzzyResults)


\* chunks of the seed set of loadMITCDocuments
SeedDocuments ==
  << [id |-> "mitc-hdfc-regalia-1", content |-> Txt.regalia_1, source |-> "MITC",
      metadata |-> [cardName |-> Lit.HDFC_Regalia, bankName |-> Lit.HDFC_Bank,
                    section |-> Txt.rewards_and_benefits]],
     [id |-> "mitc-hdfc-regalia-3", content |-> Txt.regalia_3, source |-> "MITC",
      metadata |-> [cardName |-> Lit.HDFC_Regalia, bankName |-> Lit.HDFC_Bank,
                    section |-> Lit.Fees_and_Charges]] >>

\* the chunk batches processFiles adds for an uploaded file
UploadBatches ==
  { << [id |-> "mitc-1-chunk-0", content |-> Txt.upload_1, source |-> "MITC",
        metadata |-> [cardName |-> Txt.cashback, bankName |-> Txt.state_bank_of_india,
                      section |-> Lit.Fees_and_Charges]] >> }

\* inputs of the scorers: queries and contents of up to MaxQueryWords and
\* MaxContentWords words, and three chunk texts
MaxQueryWords == 2
MaxContentWords == 2
ScorerWords == {Lit.hi, Lit.fee, Lit.hdfc, Lit.lounge}
ScorerQueries == {join(ws) : ws \in SeqsUpTo(ScorerWords, MaxQueryWords)}
ScorerContents ==
  {join(ws) : ws \in SeqsUpTo(ScorerWords, MaxContentWords)}
  \cup {Txt.upload_1, Txt.regalia_3, Txt.regalia_1}
NoMetadata == [cardName |-> <<>>, bankName |-> <<>>, section |-> <<>>]
ScorerMetadata == {NoMetadata, SeedDocuments[2].metadata}
ScorerMappings ==
  {mapQuery(Lit.hi, <<>>), mapQuery(Lit.annual_fee, <<>>),
   mapQuery(Lit.hdfc, <<[item |-> 8, score |-> Frac(1, 10), matches |-> <<Lit.hdfc>>]>>)}

(***************************************************************************)
(* State                                                                   *)
(***************************************************************************)
VARIABLES
  rev,            \* the revision of the orchestrator that runs
  documents,      \* VectorSearchEngine.documents, the index
  pc,             \* where the query in flight stands
  query,          \* the argument of searchWithRAG
  queryMapping,   \* the result of mapQuery
  fetched,        \* how the fetch of searchCards came out
  apiResults,     \* what searchCards resolved to
  filteredResults,\* the cards the API tier answers with
  mitcResults,    \* what the document search returned
  reply,          \* what queryOpenAI resolved to
  response,       \* the response record of searchWithRAG
  settled,        \* the state of the promise of searchWithRAG
  calls,          \* the adapter calls of the query in flight, in order
  scorer,         \* the last call of a scorer: its arguments and its result
  call,           \* the last call of the index or of the mapper, and its result
  messages,       \* the conversation of the chat page
  isLoading,      \* the chat page awaits searchWithRAG
  userMessage     \* the text the handler in flight sent

vars == <<rev, documents, pc, query, queryMapping, fetched, apiResults, filteredResults,
          mitcResults, reply, response, settled, calls, scorer, call,
          messages, isLoading, userMessage>>

chatVars == <<messages, isLoading, userMessage>>

queryVars == <<query, queryMapping, fetched, apiResults, filteredResults, mitcResults,
               reply, response, settled, calls>>

NoMapping ==
  [category |-> "none", confidence |-> 0, matchedKeywords |-> <<>>,
   suggestedFilters |-> [banks |-> <<>>, cardTypes |-> <<>>, features |-> <<>>]]

NoReply == [text |-> "none", confidence |-> 0]

NoFetch == [kind |-> "none", shape |-> "none"]

NoCall == [op |-> "none"]

NoScore ==
  [variant |-> "none", query |-> <<>>, content |-> <<>>, metadata |-> NoMetadata,
   mapping |-> NoMapping, similarity |-> 0]

Idle ==
  /\ pc = "idle"
  /\ query = <<>>
  /\ queryMapping = NoMapping
  /\ fetched = NoFetch
  /\ apiResults = <<>>
  /\ filteredResults = <<>>
  /\ mitcResults = <<>>
  /\ reply = NoReply
  /\ response = NoResponse
  /\ settled = "none"
  /\ calls = <<>>

\* useChat and the chat page before the first message
NoChat ==
  /\ messages = <<>>
  /\ isLoading = FALSE
  /\ userMessage = <<>>

Init ==
  /\ rev \in Revisions
  /\ documents = <<>>
  /\ Idle
  /\ NoChat
  /\ scorer = NoScore
  /\ call = NoCall

(***************************************************************************)
(* The index: loadMITCDocuments, addDocuments, clearDocuments              *)
(***************************************************************************)
\* variant of addDocuments that skips a chunk whose id the index already
\* holds; C14 fails with it
addDocumentsOnce(docs, batch) ==
  docs \o SelectSeq(batch, LAMBDA c : \A i \in DOMAIN docs : docs[i].id # c.id)

\* this.documents = [...this.documents, ...documents]
addDocuments(docs, batch) == docs \o batch

\* variant of InitializeRAG that adds the seed chunks one by one, a step
\* each; C29 fails with it
InitializeRAGChunkwise ==
  /\ Len(documents) + 1 <= MaxDocuments
  /\ documents' = Append(documents, SeedDocuments[(Len(documents) % 2) + 1])
  /\ UNCHANGED <<chatVars, rev, pc, queryVars, scorer, call>>

\* initializeRAG of a mounting useRAGSearch hook: loadMITCDocuments
InitializeRAG ==
  /\ Len(documents) + Len(SeedDocuments) <= MaxDocuments
  /\ documents' = addDocuments(documents, SeedDocuments)
  /\ UNCHANGED <<chatVars, rev, pc, queryVars, scorer, call>>

\* processFiles of the uploader hands the chunks of one processed file over
AddDocuments(batch) ==
  /\ Len(documents) + Len(batch) <= MaxDocuments
  /\ documents' = addDocuments(documents, batch)
  /\ UNCHANGED <<chatVars, rev, pc, queryVars, scorer, call>>

\* variant of clearDocuments that keeps the seed chunks; C13 fails with it
clearDocumentsKeepsSeed(docs) == SelectSeq(docs, LAMBDA c : c \in Range(SeedDocuments))

\* this.documents = []
clearDocuments(docs) == <<>>

ClearDocuments ==
  /\ documents' = clearDocuments(documents)
  /\ UNCHANGED <<chatVars, rev, pc, queryVars, scorer, call>>

(***************************************************************************)
(* searchWithRAG, one action for each stretch between two awaits           *)
(***************************************************************************)
\* return response
Respond(r) ==
  /\ response' = r
  /\ settled' = "resolved"
  /\ pc' = "done"

\* the catch block of searchWithRAG
Catch == Respond(Apology)

\* STEP 2 is entered: the document search runs on the index as it stands
EnterDocumentTier ==
  /\ mitcResults' = DocumentSearch(rev, documents, query, queryMapping)
  /\ calls' = calls \o <<"search">>
  /\ pc' = "search"
  /\ UNCHANGED <<response, settled>>

\* formatApiResponseWithAI(cards): a null card sends it to
\* formatApiResponseBasic, else it awaits queryOpenAI
EnterFormatWithAI(cards) ==
  IF HasNull(cards)
  THEN /\ IF formatApiResponseBasicThrows(cards) THEN Catch
          ELSE Respond(ApiResponse(rev, "basic-format", cards, queryMapping))
       /\ UNCHANGED calls
  ELSE /\ calls' = calls \o <<"queryOpenAI">>
       /\ pc' = "format"
       /\ UNCHANGED <<response, settled>>

\* variant of StartQuery in which the first query loads the seed set into an
\* empty index; C28 fails with it
StartQueryLoadsSeed(q, fuzzyResults) ==
  /\ pc = "idle"
  /\ rev = "basic" => fuzzyResults = <<>>
  /\ query' = q
  /\ queryMapping' = IF rev = "basic" THEN NoMapping ELSE mapQuery(q, fuzzyResults)
  /\ calls' = <<"searchCards">>
  /\ pc' = "fetch"
  /\ settled' = "pending"
  /\ documents' = IF documents = <<>> THEN SeedDocuments ELSE documents
  /\ UNCHANGED <<chatVars, rev, fetched, apiResults, filteredResults, mitcResults,
                 reply, response, scorer, call>>

\* searchWithRAG(query) up to its first await; mapQuery (and, in the mapped
\* revision, generateSearchTerms) run before the try block is entered
StartQuery(q, fuzzyResults) ==
  /\ pc = "idle"
  /\ rev = "basic" => fuzzyResults = <<>>
  /\ query' = q
  /\ queryMapping' = IF rev = "basic" THEN NoMapping ELSE mapQuery(q, fuzzyResults)
  /\ calls' = <<"searchCards">>
  /\ pc' = "fetch"
  /\ settled' = "pending"
  /\ UNCHANGED <<chatVars, rev, documents, fetched, apiResults, filteredResults, mitcResults,
                 reply, response, scorer, call>>

\* searchWithRAG(query) when queryMapper.mapQuery throws: the call is made
\* before the try block, so the promise of the async function rejects
MappingFails(q) ==
  /\ pc = "idle"
  /\ rev # "basic"
  /\ query' = q
  /\ settled' = "rejected"
  /\ pc' = "done"
  /\ UNCHANGED <<chatVars, rev, documents, queryMapping, calls, fetched, apiResults, filteredResults,
                 mitcResults, reply, response, scorer, call>>

\* variant of FetchSettles in which a failed request reaches the catch block
\* of searchWithRAG instead of being swallowed by searchCards; C4 must tell it
\* from FetchSettles
FetchSettlesAbandons(f) ==
  /\ pc = "fetch"
  /\ fetched' = [kind |-> f.kind, shape |-> f.shape]
  /\ apiResults' = <<>>
  /\ IF f.kind # "json" THEN Catch /\ UNCHANGED <<calls, mitcResults>>
     ELSE EnterDocumentTier
  /\ UNCHANGED <<chatVars, rev, documents, query, queryMapping, filteredResults, reply, scorer, call>>

\* the fetch of searchCards settles: searchCards resolves and STEP 1 goes on
FetchSettles(f) ==
  /\ pc = "fetch"
  /\ fetched' = [kind |-> f.kind, shape |-> f.shape]
  /\ LET results == searchCards(PrimaryQuery(rev, query, queryMapping), f)
     IN  /\ apiResults' = results
         /\ IF results = <<>>
            THEN EnterDocumentTier /\ UNCHANGED filteredResults
            ELSE CASE rev = "current" ->
                        /\ filteredResults' = results
                        /\ IF formatApiResponseThrows(results) THEN Catch
                           ELSE Respond(ApiResponse(rev, "formatted", results, queryMapping))
                        /\ UNCHANGED <<calls, mitcResults>>
                   [] rev = "basic" ->
                        /\ filteredResults' = results
                        /\ EnterFormatWithAI(results)
                        /\ UNCHANGED mitcResults
                   [] rev = "mapped" ->
                        IF filterApiResultsThrows(results, queryMapping)
                        THEN Catch /\ UNCHANGED <<filteredResults, calls, mitcResults>>
                        ELSE LET filtered == filterApiResults(results, queryMapping)
                             IN  /\ filteredResults' = filtered
                                 /\ IF filtered # <<>>
                                    THEN EnterFormatWithAI(filtered) /\ UNCHANGED mitcResults
                                    ELSE EnterDocumentTier
  /\ UNCHANGED <<chatVars, rev, documents, query, queryMapping, reply, scorer, call>>

\* queryOpenAI of formatApiResponseWithAI settles: the API response is built
FormatSettles(o) ==
  /\ pc = "format"
  /\ reply' = queryOpenAI(o)
  /\ Respond(ApiResponse(rev, queryOpenAI(o).text, filteredResults, queryMapping))
  /\ UNCHANGED <<chatVars, rev, documents, query, queryMapping, fetched, apiResults, filteredResults,
                 mitcResults, calls, scorer, call>>

\* variant of SearchSettles that goes on to STEP 3 whatever the search found;
\* C6 must tell it from SearchSettles
SearchSettlesFallsBack ==
  /\ pc = "search"
  /\ calls' = calls \o <<"queryOpenAI">>
  /\ pc' = "openai"
  /\ UNCHANGED <<chatVars, rev, documents, query, queryMapping, fetched, apiResults, filteredResults,
                 mitcResults, reply, response, settled, scorer, call>>

\* variant of SearchSettles that hands the results on in any order; C21
\* fails with it
SearchSettlesAnyOrder ==
  /\ pc = "search"
  /\ IF mitcResults # <<>> /\ JsGt(mitcResults[1].similarity, DocumentFloor(rev))
     THEN /\ \E p \in [DOMAIN mitcResults -> DOMAIN mitcResults] :
               /\ \A i, j \in DOMAIN p : p[i] = p[j] => i = j
               /\ Respond([MitcResponse(mitcResults) EXCEPT
                             !.sourceDocuments = [i \in DOMAIN p |-> mitcResults[p[i]]]])
          /\ UNCHANGED calls
     ELSE /\ calls' = calls \o <<"queryOpenAI">>
          /\ pc' = "openai"
          /\ UNCHANGED <<response, settled>>
  /\ UNCHANGED <<chatVars, rev, documents, query, queryMapping, fetched, apiResults, filteredResults,
                 mitcResults, reply, scorer, call>>

\* the document search settles: answer from it, or go on to STEP 3
SearchSettles ==
  /\ pc = "search"
  /\ IF mitcResults # <<>> /\ JsGt(mitcResults[1].similarity, DocumentFloor(rev))
     THEN Respond(MitcResponse(mitcResults)) /\ UNCHANGED calls
     ELSE /\ calls' = calls \o <<"queryOpenAI">>
          /\ pc' = "openai"
          /\ UNCHANGED <<response, settled>>
  /\ UNCHANGED <<chatVars, rev, documents, query, queryMapping, fetched, apiResults, filteredResults,
                 mitcResults, reply, scorer, call>>

\* variant of OpenAISettles that never returns: the call is issued again; C8
\* must tell it from OpenAISettles
OpenAISettlesRetries(o) ==
  /\ pc = "openai"
  /\ reply' = queryOpenAI(o)
  /\ UNCHANGED <<chatVars, rev, documents, pc, query, queryMapping, fetched, apiResults,
                 filteredResults, mitcResults, response, settled, calls, scorer, call>>

\* queryOpenAI of STEP 3 settles
OpenAISettles(o) ==
  /\ pc = "openai"
  /\ reply' = queryOpenAI(o)
  /\ Respond(OpenAIResponse(rev, queryOpenAI(o)))
  /\ UNCHANGED <<chatVars, rev, documents, query, queryMapping, fetched, apiResults, filteredResults,
                 mitcResults, calls, scorer, call>>

\* the caller has its answer; the next query may start
NextQuery ==
  /\ pc = "done"
  /\ pc' = "idle"
  /\ query' = <<>>
  /\ queryMapping' = NoMapping
  /\ fetched' = NoFetch
  /\ apiResults' = <<>>
  /\ filteredResults' = <<>>
  /\ mitcResults' = <<>>
  /\ reply' = NoReply
  /\ response' = NoResponse
  /\ settled' = "none"
  /\ calls' = <<>>
  /\ UNCHANGED <<chatVars, rev, documents, scorer, call>>

Next ==
  \/ InitializeRAG
  \/ \E batch \in UploadBatches : AddDocuments(batch)
  \/ ClearDocuments
  \/ \E q \in Queries, fuzzyResults \in FuzzyOutcomes : StartQuery(q, fuzzyResults)
  \/ \E f \in FetchOutcomes : FetchSettles(f)
  \/ \E o \in InvokeOutcomes : FormatSettles(o)
  \/ SearchSettles
  \/ \E o \in InvokeOutcomes : OpenAISettles(o)
  \/ NextQuery

Spec == Init /\ [][Next]_vars

\* Every adapter call settles and the event loop then runs the continuation
\* that awaits it.  A step of FetchSettles is enabled exactly when
\* pc = "fetch" and is the only step that leaves pc = "fetch", so weak
\* fairness of FetchSettles is the formula []<>(pc # "fetch"); it is written
\* in that form.
Fairness ==
  /\ []<>(pc # "fetch")
  /\ WF_vars(\E o \in InvokeOutcomes : FormatSettles(o))
  /\ WF_vars(SearchSettles)
  /\ WF_vars(\E o \in InvokeOutcomes : OpenAISettles(o))

LiveSpec == Spec /\ Fairness

\* the steps of searchWithRAG when, in addition, query mapping may fail
NextFaults ==
  \/ Next
  \/ \E q \in Queries : MappingFails(q)

SpecFaults == Init /\ [][NextFaults]_vars

(***************************************************************************)
(* The scorers as pure functions of their arguments: the arguments are     *)
(* drawn in the initial state and one of the scorers is applied to them    *)
(***************************************************************************)
ScorerInputs ==
  [variant : {"input"}, query : ScorerQueries, content : ScorerContents,
   metadata : ScorerMetadata, mapping : ScorerMappings, similarity : {0}]

InitScorer ==
  /\ rev = "current"
  /\ documents = <<>>
  /\ Idle
  /\ NoChat
  /\ scorer \in ScorerInputs
  /\ call = NoCall

ScoreAdvanced ==
  /\ scorer.variant = "input"
  /\ scorer' = [scorer EXCEPT !.variant = "advanced",
                 !.similarity = computeAdvancedSimilarity(scorer.query, scorer.content,
                                                          scorer.metadata)]
  /\ UNCHANGED <<chatVars, rev, documents, pc, queryVars, call>>

ScoreEnhanced ==
  /\ scorer.variant = "input"
  /\ scorer' = [scorer EXCEPT !.variant = "enhanced",
                 !.similarity = computeEnhancedSimilarity(scorer.query, scorer.content,
                                                          scorer.metadata)]
  /\ UNCHANGED <<chatVars, rev, documents, pc, queryVars, call>>

ScoreWithMapping ==
  /\ scorer.variant = "input"
  /\ scorer' = [scorer EXCEPT !.variant = "mapping",
                 !.similarity = computeEnhancedSimilarityWithMapping(
                                  scorer.query, scorer.content, scorer.metadata,
                                  scorer.mapping)]
  /\ UNCHANGED <<chatVars, rev, documents, pc, queryVars, call>>

NextScorer == ScoreAdvanced \/ ScoreEnhanced \/ ScoreWithMapping

SpecScorer == InitScorer /\ [][NextScorer]_vars

(***************************************************************************)
(* The index on its own: the document manager and the uploader fill and    *)
(* clear it, and search and getIndexStats read it; call holds the last     *)
(* operation with its arguments and what it returned                       *)
(***************************************************************************)
\* the label counters of getIndexStats: label -> number of chunks that carry
\* it; labels[i] is the label of chunk i, <<>> for a chunk the loop skips
\* (if (doc.metadata.bankName))
LabelCounts(labels) ==
  [l \in {labels[i] : i \in DOMAIN labels} \ {<<>>} |->
     Cardinality({i \in DOMAIN labels : labels[i] = l})]

\* variant of getIndexStats that counts a chunk without a bank or a card
\* under the empty label; C15 fails with it
getIndexStatsAllLabels(docs) ==
  LET Counts(labels) == [l \in {labels[i] : i \in DOMAIN labels} |->
                           Cardinality({i \in DOMAIN labels : labels[i] = l})]
  IN  [totalDocuments |-> Len(docs),
       sources |-> Counts([i \in DOMAIN docs |-> docs[i].source]),
       banks   |-> Counts([i \in DOMAIN docs |-> docs[i].metadata.bankName]),
       cards   |-> Counts([i \in DOMAIN docs |-> docs[i].metadata.cardName])]

getIndexStats(docs) ==
  [totalDocuments |-> Len(docs),
   sources |-> [s \in {docs[i].source : i \in DOMAIN docs} |->
                  Cardinality({i \in DOMAIN docs : docs[i].source = s})],
   banks   |-> LabelCounts([i \in DOMAIN docs |-> docs[i].metadata.bankName]),
   cards   |-> LabelCounts([i \in DOMAIN docs |-> docs[i].metadata.cardName])]

MaxTopK == 2

\* chunks of uploaded files: two files with the same text, and a file whose
\* name gives extractCardInfo neither a card nor a bank
IndexBatches ==
  LET fee1  == [id |-> "mitc-1-chunk-0", content |-> Txt.no_annual_fee, source |-> "MITC",
                metadata |-> [cardName |-> Lit.SBI, bankName |-> Lit.SBI,
                              section |-> Lit.Fees_and_Charges]]
      fee2  == [fee1 EXCEPT !.id = "mitc-2-chunk-0"]
      plain == [id |-> "mitc-3-chunk-0", content |-> Lit.fee, source |-> "MITC",
                metadata |-> NoMetadata]
  IN  {<<fee1>>, <<fee2>>, <<plain>>}

IndexQueries == {Lit.annual_fee, Lit.lounge}
IndexMappings == {mapQuery(Lit.annual_fee, <<>>)}

\* loadSampleDocuments of the document manager: loadMITCDocuments, refreshStats
LoadSampleDocuments ==
  /\ Len(documents) + Len(SeedDocuments) <= MaxDocuments
  /\ documents' = addDocuments(documents, SeedDocuments)
  /\ call' = [op |-> "addDocuments", before |-> documents, batch |-> SeedDocuments]
  /\ UNCHANGED <<chatVars, rev, pc, queryVars, scorer>>

\* one turn of the loop of processFiles: the chunks of one file are added;
\* the turns of the uploads that run side by side come in any order
ProcessFile(batch) ==
  /\ Len(documents) + Len(batch) <= MaxDocuments
  /\ documents' = addDocuments(documents, batch)
  /\ call' = [op |-> "addDocuments", before |-> documents, batch |-> batch]
  /\ UNCHANGED <<chatVars, rev, pc, queryVars, scorer>>

\* clearAllDocuments of the document manager: clearDocuments, refreshStats
ClearAllDocuments ==
  /\ documents' = clearDocuments(documents)
  /\ call' = [op |-> "clearDocuments", before |-> documents,
              stats |-> getIndexStats(documents')]
  /\ UNCHANGED <<chatVars, rev, pc, queryVars, scorer>>

\* refreshStats of the document manager
RefreshStats ==
  /\ call' = [op |-> "getIndexStats", stats |-> getIndexStats(documents)]
  /\ UNCHANGED <<chatVars, rev, documents, pc, queryVars, scorer>>

SearchCall(q, topK) ==
  /\ call' = [op |-> "search", query |-> q, mapping |-> NoMapping, topK |-> topK,
              results |-> search(documents, q, topK)]
  /\ UNCHANGED <<chatVars, rev, documents, pc, queryVars, scorer>>

SearchEnhancedCall(q, topK) ==
  /\ call' = [op |-> "searchEnhanced", query |-> q, mapping |-> NoMapping, topK |-> topK,
              results |-> searchEnhanced(documents, q, topK)]
  /\ UNCHANGED <<chatVars, rev, documents, pc, queryVars, scorer>>

SearchWithMappingCall(q, mapping, topK) ==
  /\ call' = [op |-> "searchWithMapping", query |-> q, mapping |-> mapping, topK |-> topK,
              results |-> searchWithMapping(documents, q, mapping, topK)]
  /\ UNCHANGED <<chatVars, rev, documents, pc, queryVars, scorer>>

NextIndex ==
  \/ LoadSampleDocuments
  \/ \E batch \in IndexBatches : ProcessFile(batch)
  \/ ClearAllDocuments
  \/ RefreshStats
  \/ \E q \in IndexQueries, topK \in 0..MaxTopK : SearchCall(q, topK)
  \/ \E q \in IndexQueries, topK \in 0..MaxTopK : SearchEnhancedCall(q, topK)
  \/ \E q \in IndexQueries, mapping \in IndexMappings, topK \in 0..MaxTopK :
       SearchWithMappingCall(q, mapping, topK)

InitIndex ==
  /\ rev = "current"
  /\ documents = <<>>
  /\ Idle
  /\ NoChat
  /\ scorer = NoScore
  /\ call = NoCall

SpecIndex == InitIndex /\ [][NextIndex]_vars

(***************************************************************************)
(* The query mapper as a pure function: the query and one of the result   *)
(* lists the Fuse engine can return for it are drawn in the initial state  *)
(* and mapQuery or generateSearchTerms is applied to them                  *)
(***************************************************************************)
MapperQueries ==
  {Lit.annual_fee, Lit.hi, Txt.hdfc_bank_sbi, Txt.hdfc_regalia, Txt.HDFC_Travel,
   Txt.joining_annual}

InitMapper ==
  /\ rev = "mapped"
  /\ documents = <<>>
  /\ Idle
  /\ NoChat
  /\ scorer = NoScore
  /\ call \in UNION {{[op |-> "input", query |-> q, fuzzyResults |-> f] :
                         f \in FuseSearch(q, MaxFuzzyResults)} : q \in MapperQueries}

MapQueryCall ==
  /\ call.op = "input"
  /\ call' = [op |-> "mapQuery", query |-> call.query, fuzzyResults |-> call.fuzzyResults,
              allMatches |-> MergedMatches(call.query, call.fuzzyResults),
              result |-> mapQuery(call.query, call.fuzzyResults)]
  /\ UNCHANGED <<chatVars, rev, documents, pc, queryVars, scorer>>

GenerateSearchTermsCall ==
  /\ call.op = "input"
  /\ call' = [op |-> "generateSearchTerms", query |-> call.query,
              mapping |-> mapQuery(call.query, call.fuzzyResults),
              terms |-> generateSearchTerms(call.query,
                                            mapQuery(call.query, call.fuzzyResults))]
  /\ UNCHANGED <<chatVars, rev, documents, pc, queryVars, scorer>>

NextMapper == MapQueryCall \/ GenerateSearchTermsCall

SpecMapper == InitMapper /\ [][NextMapper]_vars

(***************************************************************************)
(* searchWithRAG run twice: the index is drawn in the initial state and    *)
(* stays as it is; when a call has returned, its query, what the adapters  *)
(* gave it and its response are kept in call and the next call starts      *)
(***************************************************************************)
TwiceIndexes == {<<>>, SeedDocuments} \cup {SeedDocuments \o b : b \in UploadBatches}
TwiceQueries == {Lit.annual_fee, Lit.hi}
TwiceFuzzy   == {f \in FuzzyOutcomes : \A i \in DOMAIN f : f[i].item = 1 /\ f[i].score # 0}
TwiceFetches ==
  {f \in FetchOutcomes : f.kind = "reject" \/ (f.shape = "data" /\ Len(f.cards) <= 1)}

InitTwice ==
  /\ rev \in Revisions
  /\ documents \in TwiceIndexes
  /\ Idle
  /\ NoChat
  /\ scorer = NoScore
  /\ call = NoCall

\* the call has returned and the caller starts the next one
NextQueryAfter ==
  /\ pc = "done"
  /\ call' = [op |-> "searchWithRAG", query |-> query, queryMapping |-> queryMapping,
              apiResults |-> apiResults, reply |-> reply, response |-> response]
  /\ pc' = "idle"
  /\ query' = <<>>
  /\ queryMapping' = NoMapping
  /\ fetched' = NoFetch
  /\ apiResults' = <<>>
  /\ filteredResults' = <<>>
  /\ mitcResults' = <<>>
  /\ reply' = NoReply
  /\ response' = NoResponse
  /\ settled' = "none"
  /\ calls' = <<>>
  /\ UNCHANGED <<chatVars, rev, documents, scorer>>

NextTwice ==
  \/ \E q \in TwiceQueries, fuzzyResults \in TwiceFuzzy : StartQuery(q, fuzzyResults)
  \/ \E f \in TwiceFetches : FetchSettles(f)
  \/ \E o \in InvokeOutcomes : FormatSettles(o)
  \/ SearchSettles
  \/ \E o \in InvokeOutcomes : OpenAISettles(o)
  \/ NextQueryAfter

SpecTwice == InitTwice /\ [][NextTwice]_vars

(***************************************************************************)
(* The ingestion of uploaded files: processFiles of the uploader,           *)
(* processMITCDocument and chunkDocument of the PDF processor, and the      *)
(* seed load of a mounting hook, on an index of up to MaxIngested chunks    *)
(***************************************************************************)
MaxIngested == 4
SubstantialLength == 50
ChunkLimit == 500

\* the files of an upload: what pdfjs makes of them (it fails on a file that
\* is not readable), the sentences that pageContent.split(/[.!?]+/) gives, and
\* the names extractCardInfo and the section patterns find
UploadedFiles ==
  LET NoStops(s) == SelectSeq(s, LAMBDA ch : ch \notin {".", "!", "?"})
  IN  { [fileName |-> "broken.pdf", readable |-> FALSE, sentences |-> <<>>,
         cardName |-> <<>>, bankName |-> <<>>, type |-> Lit.General],
        [fileName |-> "scan.pdf", readable |-> TRUE, sentences |-> << Lit.fee >>,
         cardName |-> <<>>, bankName |-> <<>>, type |-> Lit.Fees_and_Charges],
        [fileName |-> "sbi-cashback.pdf", readable |-> TRUE,
         sentences |-> << <<" ">> \o Lit.fee, Txt.upload_1 >>,
         cardName |-> Txt.cashback, bankName |-> Txt.state_bank_of_india,
         type |-> Lit.Fees_and_Charges],
        [fileName |-> "list.pdf", readable |-> TRUE,
         sentences |-> << Txt.joining_annual, Txt.hdfc_bank_sbi, Txt.rewards_and_benefits >>,
         cardName |-> <<>>, bankName |-> <<>>, type |-> Lit.Fees_and_Charges],
        [fileName |-> "hdfc-regalia.pdf", readable |-> TRUE,
         sentences |-> << NoStops(Txt.regalia_1),
                          NoStops(Txt.regalia_3) \o <<" ">> \o Txt.upload_1 >>,
         cardName |-> Lit.HDFC_Regalia, bankName |-> Lit.HDFC_Bank,
         type |-> Lit.Fees_and_Charges] }

\* the ids mitc-${Date.now()}-${random} that processMITCDocument draws
DocIds == {"mitc-1", "mitc-2"}

\* sentences.forEach of splitIntoSections: the sentences are gathered into
\* sections of less than ChunkLimit characters
RECURSIVE GroupSentences(_, _, _)
GroupSentences(sentences, currentChunk, sections) ==
  LET flushed == IF trim(currentChunk) # <<>> THEN Append(sections, trim(currentChunk))
                 ELSE sections
  IN  IF sentences = <<>> THEN flushed
      ELSE IF Len(currentChunk) + Len(sentences[1]) < ChunkLimit
           THEN GroupSentences(Tail(sentences),
                               currentChunk \o trim(sentences[1]) \o <<".", " ">>, sections)
           ELSE GroupSentences(Tail(sentences), trim(sentences[1]) \o <<".", " ">>, flushed)

\* splitIntoSections on the one page of a file: the substantial sentences in
\* groups, or, when there is none, the substantial lines of the page, which
\* are its header and its text
splitIntoSections(file) ==
  LET RECURSIVE pageText(_)
      pageText(ss) == IF ss = <<>> THEN <<>>
                      ELSE IF Len(ss) = 1 THEN ss[1]
                      ELSE ss[1] \o <<".">> \o pageText(Tail(ss))
      substantial(s) == Len(trim(s)) > SubstantialLength
      sentences  == SelectSeq(file.sentences, substantial)
      lines      == << <<"1", " ", "-", "-", "-">>, pageText(file.sentences) >>
      paragraphs == SelectSeq(lines, substantial)
      contents   == IF sentences = <<>> THEN [i \in DOMAIN paragraphs |-> trim(paragraphs[i])]
                    ELSE GroupSentences(sentences, <<>>, <<>>)
  IN  [i \in DOMAIN contents |-> [content |-> contents[i], pageNumber |-> 1, type |-> file.type]]

\* chunkDocument: a chunk chunk-${index} for every section of more than
\* SubstantialLength characters
chunkDocument(file) ==
  LET sections == splitIntoSections(file)
      indexed  == [i \in DOMAIN sections |-> [index |-> i - 1, section |-> sections[i]]]
      kept     == SelectSeq(indexed, LAMBDA s : Len(trim(s.section.content)) > SubstantialLength)
  IN  [i \in DOMAIN kept |->
        [id |-> kept[i].index, content |-> trim(kept[i].section.content),
         pageNumber |-> kept[i].section.pageNumber,
         metadata |-> [cardName |-> file.cardName, bankName |-> file.bankName,
                       section |-> kept[i].section.type]]]

\* processMITCDocument of a readable file under the id it draws
processMITCDocument(file, docId) ==
  [id |-> docId, fileName |-> file.fileName, chunks |-> chunkDocument(file)]

\* variant of the mapping of processFiles that loses the content of a chunk;
\* C25 fails with it
DocumentChunksBlank(processedDoc) ==
  [i \in DOMAIN processedDoc.chunks |->
    [id |-> "", content |-> <<>>, source |-> "MITC",
     metadata |-> processedDoc.chunks[i].metadata]]

\* processedDoc.chunks.map(...) of processFiles: the chunks as the index
\* holds them, id `${processedDoc.id}-${chunk.id}`
DocumentChunks(processedDoc) ==
  LET chunkId(index) ==
        IF processedDoc.id = "mitc-1"
        THEN (IF index = 0 THEN "mitc-1-chunk-0" ELSE "mitc-1-chunk-1")
        ELSE (IF index = 0 THEN "mitc-2-chunk-0" ELSE "mitc-2-chunk-1")
  IN  [i \in DOMAIN processedDoc.chunks |->
        [id |-> chunkId(processedDoc.chunks[i].id), content |-> processedDoc.chunks[i].content,
         source |-> "MITC", metadata |-> processedDoc.chunks[i].metadata]]

\* variant of a turn of processFiles in which a failure empties the index;
\* C22 fails with it
processFileResets(docs, file, docId) ==
  IF file.readable THEN addDocuments(docs, DocumentChunks(processMITCDocument(file, docId)))
  ELSE <<>>

\* one turn of the loop of processFiles: processMITCDocument throws for a
\* file pdfjs cannot read and the catch block leaves the index alone;
\* otherwise the chunks of the file are added in one call
processFile(docs, file, docId) ==
  IF file.readable THEN addDocuments(docs, DocumentChunks(processMITCDocument(file, docId)))
  ELSE docs

\* useEffect(() => { initializeRAG() }, []) of a hook that mounts:
\* loadMITCDocuments adds the seed set
MountHook ==
  /\ Len(documents) + Len(SeedDocuments) <= MaxIngested
  /\ documents' = addDocuments(documents, SeedDocuments)
  /\ call' = [op |-> "loadMITCDocuments", before |-> documents]
  /\ UNCHANGED <<chatVars, rev, pc, queryVars, scorer>>

ProcessUploadedFile(file, docId) ==
  /\ Len(processFile(documents, file, docId)) <= MaxIngested
  /\ documents' = processFile(documents, file, docId)
  /\ call' = [op |-> "processFile", before |-> documents, file |-> file, id |-> docId]
  /\ UNCHANGED <<chatVars, rev, pc, queryVars, scorer>>

\* variant of removeDocument that takes the chunks of the document out of
\* the index; C27 fails with it
RemoveDocumentFromIndex(docId) ==
  /\ documents' = SelectSeq(documents, LAMBDA c :
                     c.id \notin (IF docId = "mitc-1" THEN {"mitc-1-chunk-0", "mitc-1-chunk-1"}
                                  ELSE {"mitc-2-chunk-0", "mitc-2-chunk-1"}))
  /\ call' = [op |-> "removeDocument", before |-> documents, id |-> docId]
  /\ UNCHANGED <<chatVars, rev, pc, queryVars, scorer>>

\* removeDocument of the uploader: the list of processed documents of the
\* component loses the document, the index is not touched
RemoveDocument(docId) ==
  /\ call' = [op |-> "removeDocument", before |-> documents, id |-> docId]
  /\ UNCHANGED <<chatVars, rev, documents, pc, queryVars, scorer>>

InitIngest ==
  /\ rev \in Revisions
  /\ documents = <<>>
  /\ Idle
  /\ NoChat
  /\ scorer = NoScore
  /\ call = NoCall

NextIngest ==
  \/ MountHook
  \/ \E file \in UploadedFiles, docId \in DocIds : ProcessUploadedFile(file, docId)
  \/ \E docId \in DocIds : RemoveDocument(docId)
  \/ ClearAllDocuments

SpecIngest == InitIngest /\ [][NextIngest]_vars

(***************************************************************************)
(* The chat page: handleSendMessage, handleNewChat and handleBackToHome of  *)
(* Index.tsx over the messages of useChat                                   *)
(***************************************************************************)
MaxMessages == 4

\* setMessages(prev => [...prev, message])
addMessage(prev, message) == Append(prev, message)

\* setMessages([])
clearMessages(prev) == <<>>

\* what the input box can hold when the user sends
ChatTexts == {Lit.annual_fee, Lit.hi, <<" ">>}

\* the responses searchWithRAG can resolve to, one for each source
ChatResponses ==
  { Apology,
    ApiResponse("current", "formatted", <<>>, NoMapping),
    OpenAIResponse("current", [text |-> "ai", confidence |-> 30]) }

\* handleSendMessage up to its await: the user message is added and
\* searchWithRAG is called; the input and the send button are disabled
\* while isLoading
HandleSendMessage(text) ==
  /\ ~isLoading
  /\ trim(text) # <<>>
  /\ Len(messages) + 2 <= MaxMessages
  /\ messages' = addMessage(messages, [text |-> text, isUser |-> TRUE,
                                       source |-> "none", confidence |-> 0])
  /\ isLoading' = TRUE
  /\ userMessage' = text
  /\ UNCHANGED <<rev, documents, pc, queryVars, scorer, call>>

\* searchWithRAG resolves: the assistant message is added, then finally
SearchResolves(r) ==
  /\ isLoading
  /\ messages' = addMessage(messages, [text |-> r.text, isUser |-> FALSE,
                                       source |-> r.source, confidence |-> r.confidence])
  /\ isLoading' = FALSE
  /\ userMessage' = <<>>
  /\ UNCHANGED <<rev, documents, pc, queryVars, scorer, call>>

\* searchWithRAG rejects: the catch block adds the message of the page
SearchRejects ==
  /\ isLoading
  /\ messages' = addMessage(messages, [text |-> "difficulties", isUser |-> FALSE,
                                       source |-> "System", confidence |-> 30])
  /\ isLoading' = FALSE
  /\ userMessage' = <<>>
  /\ UNCHANGED <<rev, documents, pc, queryVars, scorer, call>>

\* handleNewChat: clearMessages; the button is enabled while isLoading
HandleNewChat ==
  /\ messages' = clearMessages(messages)
  /\ UNCHANGED <<isLoading, userMessage, rev, documents, pc, queryVars, scorer, call>>

\* handleBackToHome: clearMessages
HandleBackToHome ==
  /\ messages' = clearMessages(messages)
  /\ UNCHANGED <<isLoading, userMessage, rev, documents, pc, queryVars, scorer, call>>

InitChat ==
  /\ rev \in Revisions
  /\ documents = <<>>
  /\ Idle
  /\ NoChat
  /\ scorer = NoScore
  /\ call = NoCall

NextChat ==
  \/ \E text \in ChatTexts : HandleSendMessage(text)
  \/ \E r \in ChatResponses : SearchResolves(r)
  \/ SearchRejects
  \/ HandleNewChat
  \/ HandleBackToHome

SpecChat == InitChat /\ [][NextChat]_vars

(***************************************************************************)
(* Properties of searchWithRAG                                             *)
(***************************************************************************)
\* searchWithRAG has returned its response record
Answered == pc = "done" /\ settled = "resolved"

\* the document tier found a top result above the floor of the revision
DocumentHit ==
  mitcResults # <<>> /\ JsGt(mitcResults[1].similarity, DocumentFloor(rev))

FetchFailures == {"reject", "status", "badJson"}

\* C1 as stated: whenever searchCards returned one or more records, the
\* response has source API, its data holds those records (all of them, or
\* the first six) and it has no sourceDocuments.
C1_RecordsAnswerFromApi ==
  (Answered /\ apiResults # <<>>) =>
     /\ response.source = "API"
     /\ response.hasData
     /\ response.data \in {apiResults, Take(apiResults, 6)}
     /\ Len(response.data) >= 1
     /\ ~response.hasSourceDocuments

\* C1 amended: whenever searchCards returned one or more records, none of
\* them null, the response has source API unless the mapped revision's
\* filterApiResults drops every record; an API response holds the records
\* that passed (the first six of them in the current revision), at least
\* one, and has no sourceDocuments.  When the filter drops every record the
\* query goes on to the document tier.
C1_PassingRecordsAnswerFromApi ==
  (Answered /\ apiResults # <<>> /\ ~HasNull(apiResults)) =>
     LET passing == IF rev = "mapped" THEN filterApiResults(apiResults, queryMapping)
                    ELSE apiResults
     IN  IF passing = <<>>
         THEN response.source \in {"MITC", "OpenAI"} /\ calls[2] = "search"
         ELSE /\ response.source = "API"
              /\ response.hasData
              /\ response.data = IF rev = "current" THEN Take(passing, 6) ELSE passing
              /\ Len(response.data) >= 1
              /\ Len(apiResults) = 2 /\ rev # "mapped" => Len(response.data) = 2
              /\ ~response.hasSourceDocuments

\* seven records came back and the current revision answered with six
C1_Witness ==
  /\ Answered /\ rev = "current"
  /\ Len(apiResults) = 7 /\ ~HasNull(apiResults)
  /\ response.source = "API" /\ Len(response.data) = 6

\* C2: whenever searchCards returned no record and the top document result
\* has a similarity s above the document-tier floor, the response has source
\* MITC, confidence round(s * 100) and sourceDocuments equal to the ranked
\* results, at least one.
C2_DocumentTierAnswer ==
  (Answered /\ apiResults = <<>> /\ DocumentHit) =>
     /\ response.source = "MITC"
     /\ response.confidence = RoundPercent(mitcResults[1].similarity)
     /\ response.hasSourceDocuments
     /\ response.sourceDocuments = mitcResults
     /\ Len(response.sourceDocuments) >= 1

\* a top similarity of 0.4 answered with confidence 40
C2_Witness ==
  /\ Answered /\ apiResults = <<>> /\ DocumentHit
  /\ mitcResults[1].similarity = Frac(4, 10)
  /\ response.source = "MITC" /\ response.confidence = 40

\* STEP 3 of searchWithRAG answered
GenerativeAnswer ==
  Answered /\ calls = <<"searchCards", "search", "queryOpenAI">>

C4_FetchFailureAbandons ==
  (Answered /\ fetched.kind \in FetchFailures) =>
     /\ response.text = "apology"
     /\ response.confidence \in 20..30
     /\ response.source \in {"OpenAI", "System"}
     /\ calls = <<"searchCards">>

\* C4 amended: a failed request is swallowed by searchCards, which resolves
\* to no record, so searchWithRAG goes on to the document tier and never
\* answers with the apology; the apology (confidence 20, source OpenAI, no
\* later tier called) is the answer only when a null record reaches the
\* filter or the formatter.
C4_FetchFailureFallsThrough ==
  /\ fetched.kind \in FetchFailures =>
       /\ apiResults = <<>>
       /\ Len(calls) >= 2 /\ calls[2] = "search"
       /\ response # Apology
  /\ response.text = "apology" =>
       /\ response = Apology
       /\ response.confidence = 20 /\ response.source = "OpenAI"
       /\ calls = <<"searchCards">>
       /\ HasNull(apiResults)

\* the request was rejected and the document tier answered
C4_Witness ==
  Answered /\ fetched.kind = "reject" /\ response.source = "MITC"

C6_GenerativeOnlyAfterBothEmpty ==
  /\ calls \in {<<>>, <<"searchCards">>, <<"searchCards", "search">>,
               <<"searchCards", "search", "queryOpenAI">>}
  /\ Len(calls) >= 2 => apiResults = <<>>
  /\ Len(calls) = 3 => ~DocumentHit
  /\ response.source = "API" => Len(calls) = 1

\* C6 amended: searchCards is always called first.  The document search is
\* called only after the API tier was left with no record (searchCards
\* returned none or, in the mapped revision, filterApiResults dropped them
\* all).  STEP 3 calls queryOpenAI only after that and after the document
\* search found nothing above the floor.  The mapped and basic revisions
\* also call queryOpenAI inside the API tier, once, to word a response whose
\* records are not null; the current revision never does.
C6_TierOrder ==
  /\ calls \in {<<>>, <<"searchCards">>, <<"searchCards", "search">>,
               <<"searchCards", "search", "queryOpenAI">>,
               <<"searchCards", "queryOpenAI">>}
  /\ (Len(calls) >= 2 /\ calls[2] = "search") =>
        /\ filteredResults = <<>>
        /\ rev # "mapped" => apiResults = <<>>
  /\ Len(calls) = 3 => ~DocumentHit
  /\ calls = <<"searchCards", "queryOpenAI">> =>
        /\ rev \in {"mapped", "basic"}
        /\ filteredResults # <<>> /\ ~HasNull(filteredResults)
        /\ mitcResults = <<>>
        /\ response # NoResponse => response.source = "API"
  /\ (rev = "current" /\ response.source = "API") => calls = <<"searchCards">>

\* the mapped revision called queryOpenAI while answering from the API tier
C6_Witness ==
  /\ Answered /\ rev = "mapped"
  /\ calls = <<"searchCards", "queryOpenAI">>
  /\ response.source = "API"

\* C7: a response carries the content of one tier only: an API response has
\* data (records searchCards returned) and no sourceDocuments, a MITC
\* response has sourceDocuments (the ranked results) and no data, an OpenAI
\* response has neither.
C7_OneTierContent ==
  response # NoResponse =>
     /\ ~(response.hasData /\ response.hasSourceDocuments)
     /\ response.source \in {"API", "MITC", "OpenAI"}
     /\ response.source = "API" =>
          /\ response.hasData /\ ~response.hasSourceDocuments
          /\ Range(response.data) \subseteq Range(apiResults)
          /\ response.sourceDocuments = <<>>
     /\ response.source = "MITC" =>
          /\ response.hasSourceDocuments /\ ~response.hasData
          /\ response.sourceDocuments = mitcResults
          /\ response.data = <<>>
     /\ response.source = "OpenAI" =>
          /\ ~response.hasData /\ ~response.hasSourceDocuments
          /\ response.data = <<>> /\ response.sourceDocuments = <<>>

\* an API answer given while the index held documents
C7_Witness ==
  /\ Answered /\ response.source = "API" /\ documents # <<>>
  /\ response.hasData /\ ~response.hasSourceDocuments

\* the four terminal outcomes of a query
ApiOutcome == response.source = "API"
MitcOutcome == response.source = "MITC"
GenerativeOutcome == response.source = "OpenAI" /\ response.text # "apology"
FallbackOutcome == response = Apology

OutcomeCount ==
  Cardinality({i \in 1..4 : <<ApiOutcome, MitcOutcome, GenerativeOutcome, FallbackOutcome>>[i]})

\* C8: provided every adapter call settles, every started query ends with one
\* response record, which is exactly one of the four outcomes, and it is
\* returned once; a query that found nothing in the API tier and nothing
\* above the floor in the document tier is answered by the generative tier.
C8_QueryTerminates ==
  /\ (settled = "pending") ~> Answered
  /\ [](Answered => OutcomeCount = 1)
  /\ [](settled = "pending" => response = NoResponse /\ OutcomeCount = 0)
  /\ (pc = "openai") ~> (GenerativeAnswer /\ GenerativeOutcome)
  /\ []((Answered /\ filteredResults = <<>> /\ ~HasNull(apiResults) /\ ~DocumentHit)
          => GenerativeOutcome)

\* both earlier tiers were empty and the generative tier answered
C8_Witness ==
  /\ GenerativeAnswer /\ GenerativeOutcome
  /\ apiResults = <<>> /\ mitcResults = <<>>

(***************************************************************************)
(* Properties of the scorers                                               *)
(***************************************************************************)
IsScored == scorer.variant \in {"advanced", "enhanced", "mapping"}

\* C9: the output of every scorer is a number from 0 to 1.
C9_ScoreInUnitInterval == IsScored => scorer.similarity \in 0..ONE

\* the signals of computeAdvancedSimilarity other than the substring and the
\* word overlap are the same for both queries
SameOtherSignals(q1, q2, content, metadata) ==
  /\ AdvancedMetadataBoost(toLowerCase(q1), metadata)
       = AdvancedMetadataBoost(toLowerCase(q2), metadata)
  /\ FeatureMatchCount(AdvancedFeatures, toLowerCase(q1), toLowerCase(content))
       = FeatureMatchCount(AdvancedFeatures, toLowerCase(q2), toLowerCase(content))

\* C10: a query that is a substring of the content scores strictly higher
\* under computeAdvancedSimilarity than a query that is no substring of it
\* and shares no word with it, the other signals being equal.
C10_SubstringScoresHigher ==
  scorer.variant = "advanced" =>
     \A q2 \in ScorerQueries :
        LET contentLower == toLowerCase(scorer.content) IN
        ( /\ includes(contentLower, toLowerCase(scorer.query))
          /\ ~includes(contentLower, toLowerCase(q2))
          /\ AdvancedMatchingWords(QueryWords(toLowerCase(q2)), contentLower) = <<>>
          /\ SameOtherSignals(scorer.query, q2, scorer.content, scorer.metadata) )
        => JsGt(scorer.similarity,
                computeAdvancedSimilarity(q2, scorer.content, scorer.metadata))

(***************************************************************************)
(* Properties of the index                                                 *)
(***************************************************************************)
SearchOps == {"search", "searchEnhanced", "searchWithMapping"}

Searched == call.op \in SearchOps

\* the chunks the index holds
Indexed == {documents[i] : i \in DOMAIN documents}

\* C11: search and searchWithMapping return at most topK results; each is a
\* chunk the index holds, with a similarity strictly above the floor of 0.1.
C11_ResultsBoundedAboveFloor ==
  Searched =>
    /\ Len(call.results) <= call.topK
    /\ \A i \in DOMAIN call.results :
         /\ call.results[i].chunk \in Indexed
         /\ call.results[i].similarity # NaN
         /\ call.results[i].similarity > SearchFloor

\* a search cut at topK while a chunk of the index stayed below the floor
C11_Witness ==
  /\ call.op \in {"search", "searchWithMapping"}
  /\ call.topK = 1
  /\ Len(call.results) = 1
  /\ Len(documents) = 3
  /\ Len(search(documents, call.query, 3)) = 2

\* the score the search of call c gives chunk doc
CallSimilarity(c, doc) ==
  CASE c.op = "search" -> computeAdvancedSimilarity(c.query, doc.content, doc.metadata)
    [] c.op = "searchEnhanced" -> computeEnhancedSimilarity(c.query, doc.content, doc.metadata)
    [] c.op = "searchWithMapping" ->
         computeEnhancedSimilarityWithMapping(c.query, doc.content, doc.metadata, c.mapping)

\* C12: the list a search returns is the first topK entries of the stable
\* descending ranking of the chunks above the floor: similarities do not
\* increase along the list, chunks of equal similarity keep their insertion
\* order, and no chunk above the floor that was left out has a higher
\* similarity than (or ties with and precedes) a returned one.
C12_StableDescendingRanking ==
  Searched =>
    LET sims   == [k \in DOMAIN documents |-> CallSimilarity(call, documents[k])]
        above  == {k \in DOMAIN documents : JsGt(sims[k], SearchFloor)}
        n      == Len(call.results)
        Before(i, j) == sims[i] > sims[j] \/ (sims[i] = sims[j] /\ i < j)
    IN  /\ n = (IF Cardinality(above) < call.topK THEN Cardinality(above) ELSE call.topK)
        /\ \A i, j \in 1..n : i < j => call.results[i].similarity >= call.results[j].similarity
        /\ \E p \in [1..n -> above] :
             /\ \A j \in 1..n : /\ call.results[j].chunk = documents[p[j]]
                                /\ call.results[j].similarity = sims[p[j]]
             /\ \A i, j \in 1..n : i < j => Before(p[i], p[j])
             /\ \A k \in above : (\A j \in 1..n : p[j] # k) =>
                                   \A j \in 1..n : Before(p[j], k)

\* two chunks tie at the top, the chunk added first scores lower and is cut
C12_Witness ==
  /\ Searched
  /\ call.topK = 2
  /\ Len(call.results) = 2
  /\ Len(documents) = 3
  /\ call.results[1].similarity = call.results[2].similarity
  /\ call.results[1].chunk = documents[2]
  /\ call.results[2].chunk = documents[3]
  /\ documents[2] # documents[3]
  /\ JsGt(CallSimilarity(call, documents[1]), SearchFloor)

EmptyStats ==
  [totalDocuments |-> 0, sources |-> <<>>, banks |-> <<>>, cards |-> <<>>]

\* C13: clearDocuments, called in any state of the index, leaves the index
\* empty: the getIndexStats that follows reports totalDocuments 0 and no
\* source, bank or card, and a second call changes nothing.
C13_ClearEmptiesIndex ==
  call.op = "clearDocuments" =>
    /\ documents = <<>>
    /\ call.stats.totalDocuments = 0
    /\ DOMAIN call.stats.sources = {}
    /\ DOMAIN call.stats.banks = {}
    /\ DOMAIN call.stats.cards = {}
    /\ clearDocuments(documents) = documents
    /\ getIndexStats(clearDocuments(documents)) = call.stats

\* the index held three chunks when it was cleared
C13_Witness ==
  /\ call.op = "clearDocuments"
  /\ Len(call.before) = 3
  /\ call.stats = EmptyStats

\* how often chunk c occurs in docs
Occurrences(docs, c) == Cardinality({i \in DOMAIN docs : docs[i] = c})

\* C14: addDocuments appends: the total after a call is the total before
\* plus the size of the batch, every chunk of the batch is kept, a chunk the
\* index already holds included, and the order in which two batches arrive
\* does not change the total or the chunks held.
C14_AddAppendsEveryChunk ==
  /\ call.op = "addDocuments" =>
       /\ getIndexStats(documents).totalDocuments = Len(call.before) + Len(call.batch)
       /\ \A c \in Range(documents) \cup Range(call.before) \cup Range(call.batch) :
            Occurrences(documents, c) = Occurrences(call.before, c) + Occurrences(call.batch, c)
  /\ \A a, b \in IndexBatches \cup {SeedDocuments} :
       LET ab == addDocuments(addDocuments(documents, a), b)
           ba == addDocuments(addDocuments(documents, b), a)
       IN  /\ Len(ab) = Len(documents) + Len(a) + Len(b)
           /\ Len(ba) = Len(ab)
           /\ \A c \in Range(ab) \cup Range(ba) : Occurrences(ab, c) = Occurrences(ba, c)

\* a batch of one chunk is added to an index of two that holds that chunk
C14_Witness ==
  /\ call.op = "addDocuments"
  /\ Len(call.before) = 2
  /\ Len(call.batch) = 1
  /\ call.batch[1] \in Range(call.before)
  /\ Len(documents) = 3

RECURSIVE SumCounts(_)
SumCounts(counts) ==
  IF DOMAIN counts = {} THEN 0
  ELSE LET l == CHOOSE x \in DOMAIN counts : TRUE
       IN  counts[l] + SumCounts([x \in DOMAIN counts \ {l} |-> counts[x]])

\* C15: getIndexStats agrees with the index: totalDocuments is the number
\* of chunks, the counts of sources add up to it, banks[l] and cards[l] are
\* the numbers of chunks whose bankName and cardName is l, and a chunk
\* without a bankName or a cardName is counted under no label.
C15_StatsMatchIndex ==
  call.op = "getIndexStats" =>
    LET stats == call.stats
        bankOf(i) == documents[i].metadata.bankName
        cardOf(i) == documents[i].metadata.cardName
    IN  /\ stats.totalDocuments = Len(documents)
        /\ SumCounts(stats.sources) = stats.totalDocuments
        /\ DOMAIN stats.banks = {bankOf(i) : i \in DOMAIN documents} \ {<<>>}
        /\ DOMAIN stats.cards = {cardOf(i) : i \in DOMAIN documents} \ {<<>>}
        /\ \A l \in DOMAIN stats.banks :
             stats.banks[l] = Cardinality({i \in DOMAIN documents : bankOf(i) = l})
        /\ \A l \in DOMAIN stats.cards :
             stats.cards[l] = Cardinality({i \in DOMAIN documents : cardOf(i) = l})
        /\ SumCounts(stats.banks)
             = Cardinality({i \in DOMAIN documents : bankOf(i) # <<>>})
        /\ SumCounts(stats.cards)
             = Cardinality({i \in DOMAIN documents : cardOf(i) # <<>>})

\* stats of an index that holds two chunks of one bank and a chunk of none
C15_Witness ==
  /\ call.op = "getIndexStats"
  /\ call.stats.totalDocuments = 3
  /\ \E l \in DOMAIN call.stats.banks : call.stats.banks[l] = 2
  /\ \E i \in DOMAIN documents : documents[i].metadata.bankName = <<>>

(***************************************************************************)
(* Properties of the query mapper                                          *)
(***************************************************************************)
Mapped == call.op = "mapQuery"

\* the results of the fuzzy pass that mapQuery takes
Accepted(fuzzyResults) ==
  {i \in DOMAIN fuzzyResults :
     fuzzyResults[i].score # 0 /\ fuzzyResults[i].score < Frac(6, 10)}

FeesAnswer ==
  /\ call.result.category = "fees"
  /\ Lit.annual_fee \in Range(call.result.matchedKeywords)
  /\ call.result.confidence > Frac(1, 10)

\* C16: the query "annual fee" maps to the category fees with "annual fee"
\* among the matched keywords and a confidence above 0.1, whatever the
\* fuzzy pass returns for it.
C16_AnnualFeeMapsToFees ==
  (Mapped /\ call.query = Lit.annual_fee) => FeesAnswer

\* the fuzzy pass took the rule of the fees and its confidence of 0.7
\* replaced that of the direct match
C16_Witness ==
  /\ Mapped
  /\ call.query = Lit.annual_fee
  /\ Accepted(call.fuzzyResults) # {}
  /\ call.result.confidence = Frac(7, 10)
  /\ FeesAnswer

\* the keywords of rule i that the lower-cased query contains
DirectKeywords(i) ==
  SelectSeq(Mappings[i].keywords,
            LAMBDA k : includes(toLowerCase(call.query), toLowerCase(k)))

DirectlyMatched == {i \in DOMAIN Mappings : DirectKeywords(i) # <<>>}

NoFilters == [banks |-> <<>>, cardTypes |-> <<>>, features |-> <<>>]

\* C17: a query that matches no rule, directly or in the fuzzy pass, maps
\* to the category general with confidence 0.1, no matched keyword and no
\* suggested bank, card type or feature.
C17_NoMatchMapsToGeneral ==
  (Mapped /\ DirectlyMatched = {} /\ Accepted(call.fuzzyResults) = {}) =>
    call.result = [category |-> "general", confidence |-> Frac(1, 10),
                   matchedKeywords |-> <<>>, suggestedFilters |-> NoFilters]

\* the fuzzy pass returned a rule for "hi" and its score was not taken
C17_Witness ==
  /\ Mapped
  /\ call.query = Lit.hi
  /\ call.fuzzyResults # <<>>
  /\ Accepted(call.fuzzyResults) = {}
  /\ call.result.category = "general"

\* C18: mapQuery returns the category of the merged entry with the highest
\* priority and, among the entries of that priority, the highest
\* confidence, and the suggested filters are the bankNames, cardTypes and
\* features of the rule of that entry.
C18_HighestPriorityThenConfidence ==
  (Mapped /\ call.allMatches # <<>>) =>
    \E i \in DOMAIN call.allMatches :
      LET best == call.allMatches[i] IN
      /\ call.result.category = best.mapping.category
      /\ call.result.confidence = best.confidence
      /\ call.result.suggestedFilters = [banks |-> best.mapping.bankNames,
                                         cardTypes |-> best.mapping.cardTypes,
                                         features |-> best.mapping.features]
      /\ \A j \in DOMAIN call.allMatches :
           LET other == call.allMatches[j] IN
           \/ other.mapping.priority < best.mapping.priority
           \/ /\ other.mapping.priority = best.mapping.priority
              /\ other.confidence <= best.confidence

\* the rule of a card, of priority 10, wins over the rule of a bank, of
\* priority 9 and of higher confidence
C18_Witness ==
  /\ Mapped
  /\ Len(call.allMatches) = 2
  /\ call.allMatches[1].mapping.priority < call.allMatches[2].mapping.priority
  /\ call.allMatches[1].confidence > call.allMatches[2].confidence
  /\ call.result.category = "card_specific"

\* the confidence of the direct match of rule i
DirectConfidence(i) ==
  JsMin(Frac(9, 10),
        (JsRatio(Len(DirectKeywords(i)), Len(Mappings[i].keywords)) * 8) \div 10 + Frac(1, 10))

\* the confidences and keyword sets with which the rules of a category
\* matched, directly or in the fuzzy pass
CategoryMatches(category) ==
  {[confidence |-> DirectConfidence(i), matchedKeywords |-> DirectKeywords(i)] :
     i \in {r \in DirectlyMatched : Mappings[r].category = category}}
  \cup {[confidence |-> ONE - call.fuzzyResults[i].score,
         matchedKeywords |-> call.fuzzyResults[i].matches] :
          i \in {r \in Accepted(call.fuzzyResults) :
                   Mappings[call.fuzzyResults[r].item].category = category}}

\* C19: after the two passes every category has at most one entry, and the
\* entry holds the highest confidence with which a rule of the category
\* matched, directly or in the fuzzy pass, and the keywords of that match;
\* of several rules of one category the best is the one kept.
C19_BestMatchOfCategoryKept ==
  Mapped =>
    /\ \A i, j \in DOMAIN call.allMatches :
         call.allMatches[i].mapping.category = call.allMatches[j].mapping.category => i = j
    /\ \A i \in DOMAIN call.allMatches :
         LET entry   == call.allMatches[i]
             matches == CategoryMatches(entry.mapping.category)
         IN  /\ [confidence |-> entry.confidence,
                 matchedKeywords |-> entry.matchedKeywords] \in matches
             /\ \A m \in matches : m.confidence <= entry.confidence

NoDuplicates(terms) == \A i, j \in DOMAIN terms : terms[i] = terms[j] => i = j

\* C20: generateSearchTerms returns a list without duplicates whose
\* elements are the lower-cased tokens of the query longer than two
\* characters and the features, banks and card types of the mapping, all of
\* them and nothing else.
C20_TermsAreDedupedUnion ==
  call.op = "generateSearchTerms" =>
    /\ NoDuplicates(call.terms)
    /\ Range(call.terms)
         = Range(SelectSeq(split(toLowerCase(call.query)), LAMBDA w : Len(w) > 2))
           \cup Range(call.mapping.suggestedFilters.features)
           \cup Range(call.mapping.suggestedFilters.banks)
           \cup Range(call.mapping.suggestedFilters.cardTypes)

\* the query in upper case names a bank that the mapping suggests as well
C20_Witness ==
  /\ call.op = "generateSearchTerms"
  /\ call.query = Txt.HDFC_Travel
  /\ Lit.hdfc \in Range(call.mapping.suggestedFilters.banks)
  /\ call.terms = <<Lit.hdfc, Lit.travel, Lit.hdfc_bank>>

(***************************************************************************)
(* Properties of searchWithRAG over calls and over the index               *)
(***************************************************************************)
ChunkIds(results) == [i \in DOMAIN results |-> results[i].chunk.id]

\* the call that has returned had the query and the adapter results of the
\* call before it
SameRunAgain ==
  /\ call.op = "searchWithRAG"
  /\ pc = "done"
  /\ query = call.query
  /\ queryMapping = call.queryMapping
  /\ apiResults = call.apiResults
  /\ reply = call.reply

IsPrefix(s, t) == Len(s) <= Len(t) /\ SubSeq(t, 1, Len(s)) = s

Processed == call.op = "processFile"

\* C22: a turn of processFiles is all or nothing: a file whose extraction
\* fails adds no chunk and leaves the index as it was, and a file that is
\* processed adds, behind the chunks the index held, one chunk for every
\* chunk of the processed document, in their order
C22_IngestionAtomicPerDocument ==
  Processed =>
    IF ~call.file.readable THEN documents = call.before
    ELSE LET chunks == processMITCDocument(call.file, call.id).chunks
         IN  /\ IsPrefix(call.before, documents)
             /\ Len(documents) = Len(call.before) + Len(chunks)
             /\ \A i \in DOMAIN chunks :
                  /\ documents[Len(call.before) + i].content = chunks[i].content
                  /\ documents[Len(call.before) + i].metadata = chunks[i].metadata

\* the extraction of a file failed while the index held chunks
C22_Witness ==
  /\ Processed
  /\ ~call.file.readable
  /\ Len(call.before) >= 2

\* C25: every chunk the index holds has an id and a content that are not empty
C25_ChunksHaveIdAndContent ==
  \A i \in DOMAIN documents : documents[i].id # "" /\ documents[i].content # <<>>

\* the index holds a seed chunk and the chunk of a file that also had a
\* sentence too short to be kept
C25_Witness ==
  /\ Processed
  /\ call.file.fileName = "sbi-cashback.pdf"
  /\ Len(documents) = Len(call.before) + 1
  /\ \E i \in DOMAIN call.before : call.before[i] \in Range(SeedDocuments)

\* C26: the seed set is in the index once however often a hook mounts: after
\* a seed load every seed chunk is held exactly once
C26_SeedLoadedOnce ==
  call.op = "loadMITCDocuments" =>
    \A i \in DOMAIN SeedDocuments : Occurrences(documents, SeedDocuments[i]) = 1

ServiceFailures == {"reject", "status"}

\* C23: when the request to the card service is rejected or comes back with
\* a status that is not OK, searchCards resolves to the empty list, the
\* document search is the next call, and searchWithRAG neither rejects nor
\* answers with the apology of its catch block
C23_ServiceFailureFallsThrough ==
  fetched.kind \in ServiceFailures =>
    /\ apiResults = <<>>
    /\ settled # "rejected"
    /\ Len(calls) >= 2 /\ calls[1] = "searchCards" /\ calls[2] = "search"
    /\ Answered => response.source \in {"MITC", "OpenAI"} /\ response.text # "apology"

\* the service answered with an error status, the index held nothing for
\* the query, and the generative tier answered
C23_Witness ==
  Answered /\ fetched.kind = "status" /\ response.source = "OpenAI" /\ Len(calls) = 3

\* C24: the confidence of every response of searchWithRAG is a number from
\* 0 to 100, whichever tier or the catch block answered
C24_ConfidenceIsPercentage ==
  Answered => response.confidence \in 0..100

\* the document tier answered with a top result of similarity 1
C24_Witness ==
  Answered /\ response.source = "MITC" /\ response.confidence = 100

ReadOps == SearchOps \cup {"getIndexStats"}

\* C28: no step of a query changes the index: the steps of searchWithRAG,
\* whatever tier answers, and the calls of search, searchEnhanced,
\* searchWithMapping and getIndexStats leave its chunks and their order
C28_QueryLeavesIndexAlone ==
  [][(\/ pc' # pc
      \/ queryVars' # queryVars
      \/ call' # call /\ call'.op \in ReadOps) => documents' = documents]_vars

\* a query went through all three tiers over an index of three chunks
C28_Witness ==
  Answered /\ Len(documents) = 3 /\ calls = <<"searchCards", "search", "queryOpenAI">>

RECURSIVE WholeBatches(_)
WholeBatches(docs) ==
  \/ docs = <<>>
  \/ \E b \in {SeedDocuments} \cup UploadBatches :
       /\ IsPrefix(b, docs)
       /\ WholeBatches(SubSeq(docs, Len(b) + 1, Len(docs)))

\* C29: the document search of a query runs in one step on the index as it
\* stands: every result is a chunk of that index, and that index is a row of
\* whole batches, whatever loads, uploads and clears come between the awaits
C29_SearchSeesOneIndexState ==
  [][(pc' = "search" /\ pc # "search") =>
       /\ \A i \in DOMAIN mitcResults' : mitcResults'[i].chunk \in Range(documents)
       /\ WholeBatches(documents)]_vars

\* the index was cleared while the query awaited the results of its search,
\* and the results are the chunks of the index as it was
C29_Witness ==
  pc = "search" /\ Len(mitcResults) >= 2 /\ documents = <<>>

(***************************************************************************)
(* The chat page                                                            *)
(***************************************************************************)
\* C30: an assistant message is added only while the conversation holds the
\* user message it answers
C30_AnswerJoinsItsQuestion ==
  [][(/\ Len(messages') = Len(messages) + 1
      /\ ~messages'[Len(messages')].isUser)
       => \E i \in DOMAIN messages :
            messages[i].isUser /\ messages[i].text = userMessage]_vars
====
